---------------------------- MODULE Spec2Model ----------------------------
(***************************************************************************)
(* State-machine model of the BusTub buffer pool: the LRU-K replacer       *)
(* (src/buffer/lru_k_replacer.cpp), the extendible hash table used as the  *)
(* page table (src/container/hash/extendible_hash_table.cpp) and the       *)
(* buffer pool manager instance (src/buffer/buffer_pool_manager.cpp).      *)
(*                                                                         *)
(* Conventions.  A std::unordered_map is a TLA+ function whose DOMAIN is   *)
(* the key set.  A std::list is a sequence whose index 1 is front().  The  *)
(* two iterator maps history_hashmap_ / cache_hashmap_ always hold exactly *)
(* the elements of their list (they are inserted and erased together), so  *)
(* "key in hashmap" is "element of the list" and the stored iterator is    *)
(* the element's position.                                                 *)
(***************************************************************************)
EXTENDS Integers, Sequences, FiniteSets, TLC

VARIABLES
    replacer_,      \* the LRUKReplacer object
    page_table_,    \* the ExtendibleHashTable<page_id_t, frame_id_t> object
    pages_,         \* frame id -> Page (page_id_, pin_count_, is_dirty_, data_)
    free_list_,     \* std::list<frame_id_t>
    next_page_id_,  \* std::atomic<page_id_t>
    disk,           \* the block device: page id -> bytes
    io,             \* disk requests issued by the last operation, in order
    ret,            \* the last operation: its name and result
    crashed,        \* the process died on undefined behaviour
    pc,             \* the next call of the caller's script (0 when the
                    \* calls are arbitrary, -1 once it has left the script)
    expected,       \* the caller's own record of the hash table: key -> the
                    \* value of its last Insert, erased by its Remove
    threads,        \* thread -> where it is in its call of the buffer pool
                    \* manager (<<>> when there is a single caller)
    root_,          \* the Trie object: path from the root -> TrieNode
    handles         \* the caller's own count of the handles it holds: page
                    \* id -> handles returned by NewPgImp and FetchPgImp and
                    \* not yet given back by a successful UnpinPgImp

vars == <<replacer_, page_table_, pages_, free_list_, next_page_id_, disk, io, ret, crashed, pc,
          expected, threads, root_, handles>>

\* the state of the caller
caller == <<pc, expected, threads, root_, handles>>

-----------------------------------------------------------------------------
(* Bounds of the exploration. *)

\* the replacer on its own is explored for every k in 1..MaxK
MaxK == 3
\* the buffer pool manager is explored for every replacer_k in 1..MaxBpmK
MaxBpmK == 2
\* largest pool size / replacer capacity explored
MaxPoolSize == 2
\* the logical clock of the replacer stops the exploration at this value
MaxClock == 4
\* page ids handed to the operations range over 0..MaxPageId
MaxPageId == 1
\* page contents range over 0..MaxData (0 is the zeroed buffer)
MaxData == 1
\* callers modify the buffers of the pages 0..MaxWritePage only
MaxWritePage == 0
\* the same two limits for the calls of a caller that follows a script
MaxScriptClock == 8
MaxScriptPageId == 3
\* the hash table on its own: bucket sizes 1..MaxBucketSize, keys 0..MaxKey,
\* values 0..MaxValue
MaxBucketSize == 2
MaxKey == 4
MaxValue == 1
\* the directory of the hash table doubles at most MaxDepth times
MaxDepth == 3
\* the threads that call the buffer pool manager concurrently are 1..MaxThreads
MaxThreads == 2
\* the trie on its own: keys of 0..MaxKeyLen characters out of 1..MaxChar,
\* values 0..MaxValue
MaxKeyLen == 2
MaxChar == 2

(* Program constants. *)

\* common/config.h: INVALID_PAGE_ID
INVALID_PAGE_ID == -1
\* buffer_pool_manager_instance.h: bucket_size_
bucket_size_ == 4

-----------------------------------------------------------------------------
(* Helpers for maps and lists. *)

EmptyMap == [x \in {} |-> 0]

MapPut(m, key, v) == [x \in DOMAIN m \cup {key} |-> IF x = key THEN v ELSE m[x]]

MapErase(m, key) == [x \in DOMAIN m \ {key} |-> m[x]]

Range(s) == {s[i] : i \in DOMAIN s}

\* std::list::erase of the element equal to x (lists here hold no duplicates)
ListErase(s, x) == SelectSeq(s, LAMBDA y : y # x)

SetMax(S) == CHOOSE x \in S : \A y \in S : y <= x

-----------------------------------------------------------------------------
(* LRUKReplacer *)

\* LRUKReplacer::LRUKReplacer
LRUKReplacer(num_frames, k) ==
    [ current_timestamp_ |-> 0,
      curr_size_         |-> 0,
      replacer_size_     |-> num_frames,
      k_                 |-> k,
      latch_             |-> FALSE,      \* TRUE: locked and never released
      history_list_      |-> <<>>,
      cache_list_        |-> <<>>,
      is_evictable_      |-> EmptyMap,
      record_cnt_        |-> EmptyMap,
      timestamp_list_    |-> EmptyMap ]

\* LRUKReplacer::Size
Size(R) == R.curr_size_

\* is_evictable_[f] as an rvalue: operator[] yields false for a missing key
IsEvictableAt(R, f) == f \in DOMAIN R.is_evictable_ /\ R.is_evictable_[f]

\* a bug: the scan runs from begin(), newest first
FwdScan(R, list) ==
    LET hit == {i \in DOMAIN list : IsEvictableAt(R, list[i])}
    IN  IF hit = {} THEN 0 ELSE CHOOSE i \in hit : \A j \in hit : i <= j

\* The reverse scan of Evict: the position of the first evictable frame met
\* from rbegin(), 0 when the scan reaches rend().
RevScan(R, list) ==
    LET hit == {i \in DOMAIN list : IsEvictableAt(R, list[i])}
    IN  IF hit = {} THEN 0 ELSE SetMax(hit)

\* operator[] inserts a false entry for every scanned frame that had none;
\* the scan visits positions Len(list) down to hit (all of them when hit = 0)
Touch(R, list, hit) ==
    LET seen == {list[i] : i \in {j \in DOMAIN list : j >= hit}}
    IN  [f \in DOMAIN R.is_evictable_ \cup seen |-> IsEvictableAt(R, f)]

\* a decrement that is left out
SizeKept(n) == n

\* size_t decrement; a negative value n stands for 2^64 + n
SizeDec(n) == n - 1

\* LRUKReplacer::Evict: [ok, frame_id, R]
Evict(R) ==
    IF Size(R) = 0 THEN [ok |-> FALSE, frame_id |-> -1, R |-> R]
    ELSE
    LET h  == RevScan(R, R.history_list_)
        Rh == [R EXCEPT !.is_evictable_ = Touch(R, R.history_list_, h)]
    IN  IF h # 0
        THEN LET f == R.history_list_[h]
             IN  [ok |-> TRUE, frame_id |-> f,
                  R |-> [Rh EXCEPT !.history_list_   = ListErase(@, f),
                                   !.curr_size_      = SizeDec(@),
                                   !.record_cnt_     = MapErase(@, f),
                                   !.timestamp_list_ = MapErase(@, f)]]
        ELSE
        LET c  == RevScan(Rh, Rh.cache_list_)
            Rc == [Rh EXCEPT !.is_evictable_ = Touch(Rh, Rh.cache_list_, c)]
        IN  IF c # 0
            THEN LET f == R.cache_list_[c]
                 IN  [ok |-> TRUE, frame_id |-> f,
                      R |-> [Rc EXCEPT !.cache_list_     = ListErase(@, f),
                                       !.curr_size_      = SizeDec(@),
                                       !.record_cnt_     = MapErase(@, f),
                                       !.timestamp_list_ = MapErase(@, f)]]
            ELSE [ok |-> FALSE, frame_id |-> -1, R |-> Rc]

\* RecordAccess, frame seen before (the else branch)
RecordAccessSeen(R, f) ==
    LET ts  == R.current_timestamp_ + 1
        cnt == R.record_cnt_[f] + 1
        R1  == [R EXCEPT !.current_timestamp_ = ts,
                         !.record_cnt_[f]     = cnt,
                         !.timestamp_list_[f] = <<ts>> \o @]
    IN  IF cnt = R.k_
        THEN [R1 EXCEPT !.history_list_ = ListErase(@, f),
                        !.cache_list_   = <<f>> \o @]
        ELSE IF cnt > R.k_
        THEN [R1 EXCEPT !.cache_list_ = <<f>> \o ListErase(@, f)]
        ELSE R1

\* RecordAccess, frame not seen before, after the eviction test
RecordAccessNew(R, f) ==
    LET ts == R.current_timestamp_ + 1
    IN  [R EXCEPT !.current_timestamp_ = ts,
                  !.record_cnt_     = MapPut(@, f, 1),
                  !.is_evictable_   = MapPut(@, f, FALSE),
                  !.timestamp_list_ = MapPut(@, f, <<ts>>),
                  !.history_list_   = IF f \in Range(@) THEN @ ELSE <<f>> \o @]

\* LRUKReplacer::RecordAccess: [thrown, R]
RecordAccess(R, f) ==
    IF f > R.replacer_size_
    THEN [thrown |-> TRUE, R |-> [R EXCEPT !.latch_ = TRUE]]
    ELSE IF f \notin DOMAIN R.record_cnt_
    THEN IF Size(R) = R.replacer_size_
         THEN LET e == Evict(R)
              IN  IF ~e.ok THEN [thrown |-> FALSE, R |-> e.R]
                  ELSE [thrown |-> FALSE, R |-> RecordAccessNew(e.R, f)]
         ELSE [thrown |-> FALSE, R |-> RecordAccessNew(R, f)]
    ELSE [thrown |-> FALSE, R |-> RecordAccessSeen(R, f)]

\* a bug: a frame is never made non-evictable again
SetEvictableNeverUnset(R, f, set_evictable) ==
    IF f \notin DOMAIN R.record_cnt_ \/ ~set_evictable THEN R
    ELSE [R EXCEPT !.is_evictable_ = MapPut(@, f, TRUE),
                   !.curr_size_ = IF IsEvictableAt(R, f) THEN @ ELSE @ + 1]

\* a bug: the size is adjusted without looking at the previous flag
SetEvictableAlwaysCounts(R, f, set_evictable) ==
    IF f \notin DOMAIN R.record_cnt_ THEN R
    ELSE [R EXCEPT !.is_evictable_ = MapPut(@, f, set_evictable),
                   !.curr_size_ = IF set_evictable THEN @ + 1 ELSE SizeDec(@)]

\* LRUKReplacer::SetEvictable
SetEvictable(R, f, set_evictable) ==
    IF f \notin DOMAIN R.record_cnt_ THEN R
    ELSE LET pre_evictable == IsEvictableAt(R, f)
         IN  [R EXCEPT !.is_evictable_ = MapPut(@, f, set_evictable),
                       !.curr_size_ = IF ~pre_evictable /\ set_evictable THEN @ + 1
                                      ELSE IF pre_evictable /\ ~set_evictable THEN SizeDec(@)
                                      ELSE @]

\* Remove that leaves the frame's record_cnt_ entry in place
RemoveKeepsRecord(R, f, u) ==
    IF f \notin DOMAIN R.record_cnt_ THEN [thrown |-> FALSE, crash |-> FALSE, R |-> R]
    ELSE IF ~IsEvictableAt(R, f) THEN [thrown |-> TRUE, crash |-> FALSE, R |-> R]
    ELSE LET inHistory == R.record_cnt_[f] < R.k_
             list      == IF inHistory THEN R.history_list_ ELSE R.cache_list_
             R1        == IF inHistory
                          THEN [R EXCEPT !.history_list_ = ListErase(@, f)]
                          ELSE [R EXCEPT !.cache_list_ = ListErase(@, f)]
         IN  IF f \notin Range(list) /\ u = "crash"
             THEN [thrown |-> FALSE, crash |-> TRUE, R |-> R]
             ELSE [thrown |-> FALSE, crash |-> FALSE,
                   R |-> [R1 EXCEPT !.curr_size_      = SizeDec(@),
                                    !.is_evictable_   = MapErase(@, f),
                                    !.timestamp_list_ = MapErase(@, f)]]

\* LRUKReplacer::Remove: [thrown, crash, R].  For k_ = 1 a frame with one
\* access is only in history_list_, and the else branch erases
\* cache_hashmap_[frame_id], a default-constructed iterator: undefined
\* behaviour.  u chooses its outcome: "crash" (the process dies) or "skip"
\* (the erase leaves the list as it is and execution goes on).
Remove(R, f, u) ==
    IF f \notin DOMAIN R.record_cnt_ THEN [thrown |-> FALSE, crash |-> FALSE, R |-> R]
    ELSE IF ~IsEvictableAt(R, f) THEN [thrown |-> TRUE, crash |-> FALSE, R |-> R]
    ELSE LET inHistory == R.record_cnt_[f] < R.k_
             list      == IF inHistory THEN R.history_list_ ELSE R.cache_list_
             R1        == IF inHistory
                          THEN [R EXCEPT !.history_list_ = ListErase(@, f)]
                          ELSE [R EXCEPT !.cache_list_ = ListErase(@, f)]
         IN  IF f \notin Range(list) /\ u = "crash"
             THEN [thrown |-> FALSE, crash |-> TRUE, R |-> R]
             ELSE [thrown |-> FALSE, crash |-> FALSE,
                   R |-> [R1 EXCEPT !.curr_size_      = SizeDec(@),
                                    !.is_evictable_   = MapErase(@, f),
                                    !.record_cnt_     = MapErase(@, f),
                                    !.timestamp_list_ = MapErase(@, f)]]

UBOutcomes == {"crash", "skip"}

-----------------------------------------------------------------------------
(* ExtendibleHashTable.  A std::shared_ptr<Bucket> is an index into the     *)
(* sequence buckets; dir_[i] of the source is dir_[i + 1] here.  std::hash  *)
(* of an int is the identity (libstdc++).                                   *)

Hash(key) == key

Pow2(n) == 2 ^ n

\* x & mask for mask = 2^n - 1
LowBits(x, n) == x % Pow2(n)

\* (x & (1 << n)) != 0
BitSet(x, n) == (x \div Pow2(n)) % 2 = 1

\* ExtendibleHashTable::ExtendibleHashTable
ExtendibleHashTable(bucket_size) ==
    [ global_depth_ |-> 0,
      bucket_size_  |-> bucket_size,
      num_buckets_  |-> 1,
      dir_          |-> <<1>>,
      buckets       |-> << [depth_ |-> 0, list_ |-> <<>>] >> ]

\* ExtendibleHashTable::IndexOf
IndexOf(T, key) == LowBits(Hash(key), T.global_depth_)

\* the bucket dir_[IndexOf(key)]
BucketOf(T, key) == T.dir_[IndexOf(T, key) + 1]

\* Bucket::Find: [ok, value]
BucketFind(b, key) ==
    LET hit == {i \in DOMAIN b.list_ : b.list_[i][1] = key}
    IN  IF hit = {} THEN [ok |-> FALSE, value |-> -1]
        ELSE [ok |-> TRUE, value |-> b.list_[CHOOSE i \in hit : \A j \in hit : i <= j][2]]

\* a bug: the pair is reported as removed and stays in the bucket
BucketRemoveKeeps(b, key) ==
    [ok |-> \E i \in DOMAIN b.list_ : b.list_[i][1] = key, b |-> b]

\* Bucket::Remove: [ok, b]
BucketRemove(b, key) ==
    LET hit == {i \in DOMAIN b.list_ : b.list_[i][1] = key}
    IN  IF hit = {} THEN [ok |-> FALSE, b |-> b]
        ELSE LET item == b.list_[CHOOSE i \in hit : \A j \in hit : i <= j]
             IN  [ok |-> TRUE, b |-> [b EXCEPT !.list_ = SelectSeq(@, LAMBDA e : e # item)]]

\* Bucket::IsFull
IsFull(T, b) == Len(b.list_) = T.bucket_size_

\* Bucket::Insert: [ok, b]
BucketInsert(T, b, key, value) ==
    LET hit == {i \in DOMAIN b.list_ : b.list_[i][1] = key}
    IN  IF hit # {}
        THEN [ok |-> TRUE,
              b |-> [b EXCEPT !.list_ = [i \in DOMAIN @ |-> IF i \in hit THEN <<key, value>> ELSE @[i]]]]
        ELSE IF IsFull(T, b) THEN [ok |-> FALSE, b |-> b]
        ELSE [ok |-> TRUE, b |-> [b EXCEPT !.list_ = Append(@, <<key, value>>)]]

\* ExtendibleHashTable::Find: [ok, value]
Find(T, key) == BucketFind(T.buckets[BucketOf(T, key)], key)

\* ExtendibleHashTable::Remove: [ok, T]
TableRemove(T, key) ==
    LET bi == BucketOf(T, key)
        r  == BucketRemove(T.buckets[bi], key)
    IN  [ok |-> r.ok, T |-> [T EXCEPT !.buckets[bi] = r.b]]

\* Split with dir_.resize(old_dir_size << 2)
SplitResizesTwice(T, key) ==
    LET bi     == BucketOf(T, key)
        bucket == T.buckets[bi]
        grow   == bucket.depth_ = T.global_depth_
        dir1   == IF grow THEN T.dir_ \o T.dir_ \o T.dir_ \o T.dir_ ELSE T.dir_
        bit    == bucket.depth_                 \* mask = 1 << bit
        ni     == Len(T.buckets) + 1            \* new_bucket
        stay   == SelectSeq(bucket.list_, LAMBDA e : ~BitSet(Hash(e[1]), bit))
        move   == SelectSeq(bucket.list_, LAMBDA e : BitSet(Hash(e[1]), bit))
    IN  [T EXCEPT !.global_depth_ = IF grow THEN @ + 1 ELSE @,
                  !.num_buckets_  = @ + 1,
                  !.buckets = Append([@ EXCEPT ![bi] = [depth_ |-> bucket.depth_ + 1, list_ |-> stay]],
                                     [depth_ |-> bucket.depth_ + 1, list_ |-> move]),
                  !.dir_ = [i \in DOMAIN dir1 |->
                               IF dir1[i] = bi /\ BitSet(i - 1, bit) THEN ni ELSE dir1[i]]]

\* Split whose directory update leaves out the test dir_[entry_index] == bucket
SplitRemapsAll(T, key) ==
    LET bi     == BucketOf(T, key)
        bucket == T.buckets[bi]
        grow   == bucket.depth_ = T.global_depth_
        dir1   == IF grow THEN T.dir_ \o T.dir_ ELSE T.dir_
        bit    == bucket.depth_                 \* mask = 1 << bit
        ni     == Len(T.buckets) + 1            \* new_bucket
        stay   == SelectSeq(bucket.list_, LAMBDA e : ~BitSet(Hash(e[1]), bit))
        move   == SelectSeq(bucket.list_, LAMBDA e : BitSet(Hash(e[1]), bit))
    IN  [T EXCEPT !.global_depth_ = IF grow THEN @ + 1 ELSE @,
                  !.num_buckets_  = @ + 1,
                  !.buckets = Append([@ EXCEPT ![bi] = [depth_ |-> bucket.depth_ + 1, list_ |-> stay]],
                                     [depth_ |-> bucket.depth_ + 1, list_ |-> move]),
                  !.dir_ = [i \in DOMAIN dir1 |->
                               IF BitSet(i - 1, bit) THEN ni ELSE dir1[i]]]

\* Split without num_buckets_++
SplitKeepsCount(T, key) ==
    LET bi     == BucketOf(T, key)
        bucket == T.buckets[bi]
        grow   == bucket.depth_ = T.global_depth_
        dir1   == IF grow THEN T.dir_ \o T.dir_ ELSE T.dir_
        bit    == bucket.depth_                 \* mask = 1 << bit
        ni     == Len(T.buckets) + 1            \* new_bucket
        stay   == SelectSeq(bucket.list_, LAMBDA e : ~BitSet(Hash(e[1]), bit))
        move   == SelectSeq(bucket.list_, LAMBDA e : BitSet(Hash(e[1]), bit))
    IN  [T EXCEPT !.global_depth_ = IF grow THEN @ + 1 ELSE @,
                  !.num_buckets_  = @,
                  !.buckets = Append([@ EXCEPT ![bi] = [depth_ |-> bucket.depth_ + 1, list_ |-> stay]],
                                     [depth_ |-> bucket.depth_ + 1, list_ |-> move]),
                  !.dir_ = [i \in DOMAIN dir1 |->
                               IF dir1[i] = bi /\ BitSet(i - 1, bit) THEN ni ELSE dir1[i]]]

\* One pass of the body of Insert's loop after a failed Bucket::Insert:
\* double the directory if needed, then split the bucket of key.
Split(T, key) ==
    LET bi     == BucketOf(T, key)
        bucket == T.buckets[bi]
        grow   == bucket.depth_ = T.global_depth_
        dir1   == IF grow THEN T.dir_ \o T.dir_ ELSE T.dir_
        bit    == bucket.depth_                 \* mask = 1 << bit
        ni     == Len(T.buckets) + 1            \* new_bucket
        stay   == SelectSeq(bucket.list_, LAMBDA e : ~BitSet(Hash(e[1]), bit))
        move   == SelectSeq(bucket.list_, LAMBDA e : BitSet(Hash(e[1]), bit))
    IN  [T EXCEPT !.global_depth_ = IF grow THEN @ + 1 ELSE @,
                  !.num_buckets_  = @ + 1,
                  !.buckets = Append([@ EXCEPT ![bi] = [depth_ |-> bucket.depth_ + 1, list_ |-> stay]],
                                     [depth_ |-> bucket.depth_ + 1, list_ |-> move]),
                  !.dir_ = [i \in DOMAIN dir1 |->
                               IF dir1[i] = bi /\ BitSet(i - 1, bit) THEN ni ELSE dir1[i]]]

\* The while (true) loop of ExtendibleHashTable::Insert: [returned, T].  The
\* loop has no exit but a successful Bucket::Insert; it goes on doubling the
\* directory until the doubling is beyond what int mask = 1 << depth and
\* dir_.resize can do (MaxDepth doublings here), where the call does not
\* return: returned is FALSE.
RECURSIVE InsertLoop(_, _, _)
InsertLoop(T, key, value) ==
    LET bi == BucketOf(T, key)
        r  == BucketInsert(T, T.buckets[bi], key, value)
    IN  IF r.ok THEN [returned |-> TRUE, T |-> [T EXCEPT !.buckets[bi] = r.b]]
        ELSE IF T.buckets[bi].depth_ = T.global_depth_ /\ T.global_depth_ >= MaxDepth
        THEN [returned |-> FALSE, T |-> T]
        ELSE InsertLoop(Split(T, key), key, value)

\* ExtendibleHashTable::Insert: the table it leaves
TableInsert(T, key, value) == InsertLoop(T, key, value).T

\* The tables at the start of each pass of Insert's loop: every pass but the
\* last splits
RECURSIVE Passes(_, _, _)
Passes(T, key, value) ==
    LET bi == BucketOf(T, key)
    IN  IF BucketInsert(T, T.buckets[bi], key, value).ok
           \/ (T.buckets[bi].depth_ = T.global_depth_ /\ T.global_depth_ >= MaxDepth)
        THEN <<T>>
        ELSE <<T>> \o Passes(Split(T, key), key, value)

-----------------------------------------------------------------------------
(* Trie.  A node is named by the characters on the path from the root to   *)
(* it; the children_ of the node at path p are the nodes at the paths      *)
(* Append(p, c).                                                           *)

\* TrieNode::TrieNode(char): a node that ends no key
TrieNode == [is_end_ |-> FALSE, value_ |-> -1]

\* TrieNodeWithValue::TrieNodeWithValue: SetEndNode(true) and the value
TrieNodeWithValue(value) == [is_end_ |-> TRUE, value_ |-> value]

\* Trie::Trie: the root node alone
Trie == [p \in {<<>>} |-> TrieNode]

\* the first i characters of key
Prefix(key, i) == SubSeq(key, 1, i)

\* TrieNode::HasChildren of the node at path p
HasChildren(T, p) ==
    \E q \in DOMAIN T : Len(q) = Len(p) + 1 /\ Prefix(q, Len(p)) = p

\* TrieNode::GetChildNode(key[i]) finds a node at every step of the walk
\* from the root along key
PathExists(T, key) == \A i \in 1..Len(key) : Prefix(key, i) \in DOMAIN T

\* TrieNode::RemoveChildNode(c) on the node at path p: children_.erase
\* destroys the child and, with it, everything it owns
RemoveChildNode(T, p, c) ==
    LET child == Append(p, c)
        kept == {q \in DOMAIN T :
                    ~(Len(q) >= Len(child) /\ Prefix(q, Len(child)) = child)}
    IN  [q \in kept |-> T[q]]

\* Trie::Insert: the missing nodes of the path are created, and the terminal
\* node, unless it already ends a key, is replaced by a node with the value
\* that takes over its children.
TrieInsert(T, key, value) ==
    IF Len(key) = 0 THEN [ok |-> FALSE, T |-> T]
    ELSE LET path == {Prefix(key, i) : i \in 1..Len(key)}
             W == [q \in DOMAIN T \cup path |-> IF q \in DOMAIN T THEN T[q] ELSE TrieNode]
         IN  IF W[key].is_end_ THEN [ok |-> FALSE, T |-> W]
             ELSE [ok |-> TRUE, T |-> [W EXCEPT ![key] = TrieNodeWithValue(value)]]

\* Remove's while loop over st_path, from the terminal node up to the root's
\* child: a node that has children is skipped, any other is erased from its
\* parent
RECURSIVE Unwind(_, _, _)
Unwind(T, key, i) ==
    IF i = 0 THEN T
    ELSE LET child == Prefix(key, i)
         IN  Unwind(IF child \in DOMAIN T /\ HasChildren(T, child)
                    THEN T
                    ELSE RemoveChildNode(T, Prefix(key, i - 1), key[i]),
                    key, i - 1)

\* Trie::Remove
TrieRemove(T, key) ==
    IF Len(key) = 0 THEN [ok |-> FALSE, T |-> T]
    ELSE IF ~PathExists(T, key) THEN [ok |-> FALSE, T |-> T]
    ELSE [ok |-> TRUE, T |-> Unwind(T, key, Len(key))]

\* Trie::GetValue<T>: every value of the model has the type T asked for
GetValue(T, key) ==
    IF Len(key) = 0 THEN [success |-> FALSE, value |-> -1]
    ELSE IF ~PathExists(T, key) THEN [success |-> FALSE, value |-> -1]
    ELSE IF ~T[key].is_end_ THEN [success |-> FALSE, value |-> -1]
    ELSE [success |-> TRUE, value |-> T[key].value_]

-----------------------------------------------------------------------------
(* BufferPoolManagerInstance *)

\* The exploration stops where a call would take the replacer's clock or the
\* page id counter beyond its limit.
ClockLimit == IF pc >= 1 THEN MaxScriptClock ELSE MaxClock

PageLimit == IF pc >= 1 THEN MaxScriptPageId ELSE MaxPageId

\* pool_size_: the frames are 0 .. pool_size_ - 1
pool_size_ == Cardinality(DOMAIN pages_)

FrameIds == DOMAIN pages_

PageIds == 0..MaxPageId

\* Page::Page / a frame after DeletePgImp's reset
NoPage == [page_id_ |-> INVALID_PAGE_ID, pin_count_ |-> 0, is_dirty_ |-> FALSE, data_ |-> 0]

\* What the last operation returned: ok is the bool result (for a Page *
\* result: non-null), frame the frame of the returned Page * (-1 for none).
Result(op, ok, frame) == [op |-> op, ok |-> ok, frame |-> frame, thrown |-> FALSE]

\* The last operation ended by an exception leaving the function.
Thrown(op) == [op |-> op, ok |-> FALSE, frame |-> -1, thrown |-> TRUE]

\* BufferPoolManagerInstance::BufferPoolManagerInstance
InitBPM ==
    \E pool_size \in 1..MaxPoolSize, replacer_k \in 1..MaxBpmK :
        /\ pages_ = [f \in 0..(pool_size - 1) |-> NoPage]
        /\ page_table_ = ExtendibleHashTable(bucket_size_)
        /\ replacer_ = LRUKReplacer(pool_size, replacer_k)
        /\ free_list_ = [i \in 1..pool_size |-> i - 1]
        /\ next_page_id_ = 0
        /\ disk = [p \in PageIds |-> 0]
        /\ io = <<>>
        /\ ret = Result("Init", TRUE, -1)
        /\ crashed = FALSE
        /\ pc = 0
        /\ expected = EmptyMap
        /\ threads = <<>>
        /\ root_ = Trie
        /\ handles = EmptyMap

\* what the victim acquisition of NewPgImp / FetchPgImp leaves behind
Acquired(ok, f, pgs, rep, free, pt, dsk, log) ==
    [ok |-> ok, frame_id |-> f, pages |-> pgs, replacer |-> rep, free_list |-> free,
     page_table |-> pt, disk |-> dsk, io |-> log]

\* a bug: a dirty victim is dropped without being written
WriteBackSkipped(pgs, dsk, f) == [disk |-> dsk, io |-> <<>>]

\* the write-back of a dirty victim frame f: [disk, io]
WriteBack(pgs, dsk, f) ==
    IF pgs[f].is_dirty_
    THEN [disk |-> [dsk EXCEPT ![pgs[f].page_id_] = pgs[f].data_],
          io |-> << <<"write", pgs[f].page_id_, pgs[f].data_>> >>]
    ELSE [disk |-> dsk, io |-> <<>>]

\* a bug: the replacer is never asked for a victim
AcquireFrameFreeListOnly(pgs, rep, free, pt, dsk) ==
    IF free # <<>>
    THEN Acquired(TRUE, Head(free), pgs, rep, Tail(free), pt, dsk, <<>>)
    ELSE Acquired(FALSE, -1, pgs, rep, free, pt, dsk, <<>>)

\* The victim acquisition shared by NewPgImp and FetchPgImp: the free list
\* first, the replacer second; a dirty victim is written back, the frame is
\* reset and its page leaves the page table.
AcquireFrame(pgs, rep, free, pt, dsk) ==
    IF free # <<>>
    THEN Acquired(TRUE, Head(free), pgs, rep, Tail(free), pt, dsk, <<>>)
    ELSE LET e == Evict(rep)
         IN  IF e.ok
             THEN LET f == e.frame_id
                      page_evict == pgs[f].page_id_
                      w == WriteBack(pgs, dsk, f)
                  IN  Acquired(TRUE, f, [pgs EXCEPT ![f] = NoPage], e.R, free,
                               TableRemove(pt, page_evict).T, w.disk, w.io)
             ELSE Acquired(FALSE, -1, pgs, e.R, free, pt, dsk, <<>>)

\* BufferPoolManagerInstance::AllocatePage
AllocatePage == next_page_id_

\* BufferPoolManagerInstance::NewPgImp
NewPgImp ==
    /\ ~crashed /\ ~replacer_.latch_
    /\ LET a == AcquireFrame(pages_, replacer_, free_list_, page_table_, disk)
       IN  IF ~a.ok
           THEN /\ replacer_' = a.replacer
                /\ ret' = Result("NewPg", FALSE, -1)
                /\ io' = <<>>
                /\ UNCHANGED <<page_table_, pages_, free_list_, next_page_id_, disk, crashed>>
           ELSE LET f == a.frame_id
                    page_id == AllocatePage
                IN  /\ page_id <= PageLimit
                    /\ a.replacer.current_timestamp_ < ClockLimit
                    /\ next_page_id_' = next_page_id_ + 1
                    /\ page_table_' = TableInsert(a.page_table, page_id, f)
                    /\ replacer_' = SetEvictable(RecordAccess(a.replacer, f).R, f, FALSE)
                    /\ pages_' = [a.pages EXCEPT ![f] =
                                     [page_id_ |-> page_id, pin_count_ |-> 1,
                                      is_dirty_ |-> FALSE, data_ |-> 0]]
                    /\ free_list_' = a.free_list
                    /\ disk' = a.disk
                    /\ io' = a.io
                    /\ ret' = Result("NewPg", TRUE, f)
                    /\ UNCHANGED crashed

\* BufferPoolManagerInstance::FetchPgImp
FetchPgImp(page_id) ==
    /\ ~crashed /\ ~replacer_.latch_
    /\ LET found == Find(page_table_, page_id)
           hit   == found.value
           \* the hit branch (it does not return)
           pgs1  == IF found.ok THEN [pages_ EXCEPT ![hit].pin_count_ = @ + 1] ELSE pages_
           rep1  == IF found.ok
                    THEN SetEvictable(RecordAccess(replacer_, hit).R, hit, FALSE)
                    ELSE replacer_
           a     == AcquireFrame(pgs1, rep1, free_list_, page_table_, disk)
       IN  IF ~a.ok
           THEN /\ a.replacer.current_timestamp_ <= ClockLimit
                /\ replacer_' = a.replacer
                /\ pages_' = a.pages
                /\ ret' = Result("FetchPg", FALSE, -1)
                /\ io' = <<>>
                /\ UNCHANGED <<page_table_, free_list_, next_page_id_, disk, crashed>>
           ELSE LET f == a.frame_id
                IN  /\ a.replacer.current_timestamp_ < ClockLimit
                    /\ page_table_' = TableInsert(a.page_table, page_id, f)
                    /\ replacer_' = SetEvictable(RecordAccess(a.replacer, f).R, f, FALSE)
                    /\ pages_' = [a.pages EXCEPT ![f] =
                                     [page_id_ |-> page_id, pin_count_ |-> 1,
                                      is_dirty_ |-> FALSE, data_ |-> a.disk[page_id]]]
                    /\ free_list_' = a.free_list
                    /\ disk' = a.disk
                    /\ io' = a.io \o << <<"read", page_id, a.disk[page_id]>> >>
                    /\ ret' = Result("FetchPg", TRUE, f)
                    /\ UNCHANGED <<next_page_id_, crashed>>

\* a bug: the pin count is not tested
UnpinRefusedOnlyAbsent(page_id) == ~Find(page_table_, page_id).ok

\* UnpinPgImp's two early returns: the page is not in the page table, or
\* its pin count is already 0
UnpinRefused(page_id) ==
    LET found == Find(page_table_, page_id)
    IN  IF ~found.ok THEN TRUE ELSE pages_[found.value].pin_count_ = 0

\* a bug: the argument is stored as it is
DirtyAssigned(was_dirty, is_dirty) == is_dirty

\* UnpinPgImp's assignment to is_dirty_
DirtyAfterUnpin(was_dirty, is_dirty) == IF is_dirty THEN is_dirty ELSE ~is_dirty

\* a bug: the frame is handed to the replacer on every unpin
ReleaseAlways(rep, f, pin) == SetEvictable(rep, f, TRUE)

\* UnpinPgImp's last step: the frame becomes evictable when the pin count,
\* already decremented to pin, is 0
ReleaseIfUnpinned(rep, f, pin) == IF pin = 0 THEN SetEvictable(rep, f, TRUE) ELSE rep

\* BufferPoolManagerInstance::UnpinPgImp
UnpinPgImp(page_id, is_dirty) ==
    /\ ~crashed /\ ~replacer_.latch_
    /\ LET found == Find(page_table_, page_id)
           f     == found.value
       IN  IF UnpinRefused(page_id)
           THEN /\ ret' = Result("UnpinPg", FALSE, -1)
                /\ io' = <<>>
                /\ UNCHANGED <<replacer_, page_table_, pages_, free_list_, next_page_id_, disk, crashed>>
           ELSE LET pin == pages_[f].pin_count_ - 1
                IN  /\ pages_' = [pages_ EXCEPT ![f].pin_count_ = pin,
                                                ![f].is_dirty_ = DirtyAfterUnpin(@, is_dirty)]
                    /\ replacer_' = ReleaseIfUnpinned(replacer_, f, pin)
                    /\ ret' = Result("UnpinPg", TRUE, -1)
                    /\ io' = <<>>
                    /\ UNCHANGED <<page_table_, free_list_, next_page_id_, disk, crashed>>

\* a bug: a clean page is not written
FlushPgDirtyOnly(pgs, dsk, page_id) ==
    LET found == Find(page_table_, page_id)
        f     == found.value
    IN  IF page_id = INVALID_PAGE_ID \/ ~found.ok
        THEN [ok |-> FALSE, frame |-> -1, pages |-> pgs, disk |-> dsk, io |-> <<>>]
        ELSE IF ~pgs[f].is_dirty_
        THEN [ok |-> TRUE, frame |-> f, pages |-> pgs, disk |-> dsk, io |-> <<>>]
        ELSE [ok |-> TRUE, frame |-> f,
              pages |-> [pgs EXCEPT ![f].is_dirty_ = FALSE],
              disk |-> [dsk EXCEPT ![page_id] = pgs[f].data_],
              io |-> << <<"write", page_id, pgs[f].data_>> >>]

\* a bug: the page is written and stays dirty
FlushPgKeepsDirty(pgs, dsk, page_id) ==
    LET found == Find(page_table_, page_id)
        f     == found.value
    IN  IF page_id = INVALID_PAGE_ID \/ ~found.ok
        THEN [ok |-> FALSE, frame |-> -1, pages |-> pgs, disk |-> dsk, io |-> <<>>]
        ELSE [ok |-> TRUE, frame |-> f, pages |-> pgs,
              disk |-> [dsk EXCEPT ![page_id] = pgs[f].data_],
              io |-> << <<"write", page_id, pgs[f].data_>> >>]

\* BufferPoolManagerInstance::FlushPgImp as a function of the state it
\* touches: [ok, pages, disk, io]
FlushPg(pgs, dsk, page_id) ==
    LET found == Find(page_table_, page_id)
        f     == found.value
    IN  IF page_id = INVALID_PAGE_ID \/ ~found.ok
        THEN [ok |-> FALSE, frame |-> -1, pages |-> pgs, disk |-> dsk, io |-> <<>>]
        ELSE [ok |-> TRUE, frame |-> f,
              pages |-> [pgs EXCEPT ![f].is_dirty_ = FALSE],
              disk |-> [dsk EXCEPT ![page_id] = pgs[f].data_],
              io |-> << <<"write", page_id, pgs[f].data_>> >>]

\* BufferPoolManagerInstance::FlushPgImp
FlushPgImp(page_id) ==
    /\ ~crashed /\ ~replacer_.latch_
    /\ LET r == FlushPg(pages_, disk, page_id)
       IN  /\ pages_' = r.pages
           /\ disk' = r.disk
           /\ io' = r.io
           /\ ret' = Result("FlushPg", r.ok, -1)
    /\ UNCHANGED <<replacer_, page_table_, free_list_, next_page_id_, crashed>>

\* the loop of FlushAllPgsImp from frame i on: [pages, disk, io]
RECURSIVE FlushFrom(_, _, _, _)
FlushFrom(i, pgs, dsk, log) ==
    IF i >= pool_size_ THEN [pages |-> pgs, disk |-> dsk, io |-> log]
    ELSE LET r == FlushPg(pgs, dsk, pgs[i].page_id_)
         IN  FlushFrom(i + 1, r.pages, r.disk, log \o r.io)

\* BufferPoolManagerInstance::FlushAllPgsImp
FlushAllPgsImp ==
    /\ ~crashed /\ ~replacer_.latch_
    /\ LET r == FlushFrom(0, pages_, disk, <<>>)
       IN  /\ pages_' = r.pages
           /\ disk' = r.disk
           /\ io' = r.io
           /\ ret' = Result("FlushAllPgs", TRUE, -1)
    /\ UNCHANGED <<replacer_, page_table_, free_list_, next_page_id_, crashed>>

\* a bug: a pinned page is deleted like an unpinned one
DeleteRefusedNever(f) == FALSE

\* DeletePgImp's second early return: the page is pinned
DeleteRefused(f) == pages_[f].pin_count_ > 0

\* BufferPoolManagerInstance::DeletePgImp
DeletePgImp(page_id, u) ==
    /\ ~crashed /\ ~replacer_.latch_
    /\ LET found == Find(page_table_, page_id)
           f     == found.value
       IN  IF ~found.ok
           THEN /\ ret' = Result("DeletePg", TRUE, -1)
                /\ io' = <<>>
                /\ UNCHANGED <<replacer_, page_table_, pages_, free_list_, next_page_id_, disk, crashed>>
           ELSE IF DeleteRefused(f)
           THEN /\ ret' = Result("DeletePg", FALSE, -1)
                /\ io' = <<>>
                /\ UNCHANGED <<replacer_, page_table_, pages_, free_list_, next_page_id_, disk, crashed>>
           ELSE LET rm == Remove(replacer_, f, u)
                IN  /\ disk' = [disk EXCEPT ![page_id] = pages_[f].data_]
                    /\ io' = << <<"write", page_id, pages_[f].data_>> >>
                    /\ IF rm.thrown \/ rm.crash
                       THEN /\ crashed' = rm.crash
                            /\ ret' = Thrown("DeletePg")
                            /\ UNCHANGED <<replacer_, page_table_, pages_, free_list_, next_page_id_>>
                       ELSE /\ replacer_' = rm.R
                            /\ free_list_' = Append(free_list_, f)
                            /\ page_table_' = TableRemove(page_table_, page_id).T
                            /\ pages_' = [pages_ EXCEPT ![f] = NoPage]
                            /\ ret' = Result("DeletePg", TRUE, -1)
                            /\ UNCHANGED <<next_page_id_, crashed>>

\* A caller that holds a pin on frame f writes v into the page's buffer.
WriteData(f, v) ==
    /\ ~crashed
    /\ pages_[f].pin_count_ > 0
    /\ pages_[f].page_id_ \in 0..MaxWritePage
    /\ pages_[f].data_ # v
    /\ pages_' = [pages_ EXCEPT ![f].data_ = v]
    /\ ret' = Result("WriteData", TRUE, -1)
    /\ io' = <<>>
    /\ UNCHANGED <<replacer_, page_table_, free_list_, next_page_id_, disk, crashed>>

Init == InitBPM

Next ==
    \/ NewPgImp /\ UNCHANGED caller
    \/ \E p \in PageIds : FetchPgImp(p) /\ UNCHANGED caller
    \/ \E p \in PageIds, d \in BOOLEAN : UnpinPgImp(p, d) /\ UNCHANGED caller
    \/ \E p \in PageIds \cup {INVALID_PAGE_ID} : FlushPgImp(p) /\ UNCHANGED caller
    \/ FlushAllPgsImp /\ UNCHANGED caller
    \/ \E p \in PageIds, u \in UBOutcomes : DeletePgImp(p, u) /\ UNCHANGED caller
    \/ \E f \in FrameIds, v \in 1..MaxData : WriteData(f, v) /\ UNCHANGED caller

Spec == Init /\ [][Next]_vars

-----------------------------------------------------------------------------
(* The replacer on its own, driven by arbitrary calls. *)

InitReplacer ==
    \E num_frames \in 1..MaxPoolSize, k \in 1..MaxK :
        /\ replacer_ = LRUKReplacer(num_frames, k)
        /\ page_table_ = ExtendibleHashTable(bucket_size_)
        /\ pages_ = <<>>
        /\ free_list_ = <<>>
        /\ next_page_id_ = 0
        /\ disk = <<>>
        /\ io = <<>>
        /\ ret = Result("Init", TRUE, -1)
        /\ crashed = FALSE
        /\ pc = 0
        /\ expected = EmptyMap
        /\ threads = <<>>
        /\ root_ = Trie
        /\ handles = EmptyMap

BPMUnchanged == UNCHANGED <<page_table_, pages_, free_list_, next_page_id_, disk, io, caller>>

\* a call of LRUKReplacer::Evict
EvictCall ==
    /\ ~crashed /\ ~replacer_.latch_
    /\ LET e == Evict(replacer_)
       IN  /\ replacer_' = e.R
           /\ ret' = Result("Evict", e.ok, e.frame_id)
    /\ UNCHANGED crashed /\ BPMUnchanged

\* a call of LRUKReplacer::RecordAccess
RecordAccessCall(f) ==
    /\ ~crashed /\ ~replacer_.latch_
    /\ replacer_.current_timestamp_ < MaxClock
    /\ LET r == RecordAccess(replacer_, f)
       IN  /\ replacer_' = r.R
           /\ ret' = IF r.thrown THEN Thrown("RecordAccess") ELSE Result("RecordAccess", TRUE, -1)
    /\ UNCHANGED crashed /\ BPMUnchanged

\* a call of LRUKReplacer::SetEvictable
SetEvictableCall(f, set_evictable) ==
    /\ ~crashed /\ ~replacer_.latch_
    /\ replacer_' = SetEvictable(replacer_, f, set_evictable)
    /\ ret' = Result("SetEvictable", TRUE, -1)
    /\ UNCHANGED crashed /\ BPMUnchanged

\* a call of LRUKReplacer::Remove
RemoveCall(f, u) ==
    /\ ~crashed /\ ~replacer_.latch_
    /\ LET r == Remove(replacer_, f, u)
       IN  /\ replacer_' = r.R
           /\ crashed' = r.crash
           /\ ret' = IF r.thrown \/ r.crash THEN Thrown("Remove") ELSE Result("Remove", TRUE, -1)
    /\ BPMUnchanged

\* frame ids handed to the replacer: the valid ones, replacer_size_ itself
\* and one beyond
ReplacerFrames == 0..(replacer_.replacer_size_ + 1)

NextReplacer ==
    \/ EvictCall
    \/ \E f \in ReplacerFrames : RecordAccessCall(f)
    \/ \E f \in ReplacerFrames, b \in BOOLEAN : SetEvictableCall(f, b)
    \/ \E f \in ReplacerFrames, u \in UBOutcomes : RemoveCall(f, u)

SpecReplacer == InitReplacer /\ [][NextReplacer]_vars

-----------------------------------------------------------------------------
(* The buffer pool manager and a caller that keeps its own books: expected  *)
(* is page id -> the bytes the caller last left in the page when it gave it *)
(* back with UnpinPgImp(p, true) (no entry once the page is written again   *)
(* or deleted), handles is page id -> the handles it holds.                 *)

\* handles[p], 0 for a page the caller never had a handle to
Held(p) == IF p \in DOMAIN handles THEN handles[p] ELSE 0

CallerRest == UNCHANGED <<pc, threads, root_>>

CallerNewPg ==
    /\ NewPgImp
    /\ handles' = IF ret'.ok THEN MapPut(handles, AllocatePage, Held(AllocatePage) + 1) ELSE handles
    /\ UNCHANGED expected /\ CallerRest

\* the caller fetches pages that NewPgImp has allocated
CallerFetchPg(p) ==
    /\ p < next_page_id_
    /\ FetchPgImp(p)
    /\ handles' = IF ret'.ok THEN MapPut(handles, p, Held(p) + 1) ELSE handles
    /\ UNCHANGED expected /\ CallerRest

CallerUnpinPg(p, is_dirty) ==
    /\ UnpinPgImp(p, is_dirty)
    /\ handles' = IF ret'.ok THEN MapPut(handles, p, Held(p) - 1) ELSE handles
    /\ expected' = IF ret'.ok /\ is_dirty
                   THEN MapPut(expected, p, pages_[Find(page_table_, p).value].data_)
                   ELSE expected
    /\ CallerRest

CallerFlushPg(p) ==
    /\ FlushPgImp(p)
    /\ UNCHANGED <<expected, handles>> /\ CallerRest

CallerFlushAllPgs ==
    /\ FlushAllPgsImp
    /\ UNCHANGED <<expected, handles>> /\ CallerRest

CallerDeletePg(p, u) ==
    /\ DeletePgImp(p, u)
    /\ expected' = IF ret'.ok THEN MapErase(expected, p) ELSE expected
    /\ UNCHANGED handles /\ CallerRest

CallerWriteData(f, v) ==
    /\ WriteData(f, v)
    /\ expected' = MapErase(expected, pages_[f].page_id_)
    /\ UNCHANGED handles /\ CallerRest

NextCaller ==
    \/ CallerNewPg
    \/ \E p \in PageIds : CallerFetchPg(p)
    \/ \E p \in PageIds, d \in BOOLEAN : CallerUnpinPg(p, d)
    \/ \E p \in PageIds \cup {INVALID_PAGE_ID} : CallerFlushPg(p)
    \/ CallerFlushAllPgs
    \/ \E p \in PageIds, u \in UBOutcomes : CallerDeletePg(p, u)
    \/ \E f \in FrameIds, v \in 1..MaxData : CallerWriteData(f, v)

\* BufferPoolManagerInstance(MaxPoolSize, disk_manager, MaxBpmK)
InitCaller ==
    /\ pages_ = [f \in 0..(MaxPoolSize - 1) |-> NoPage]
    /\ page_table_ = ExtendibleHashTable(bucket_size_)
    /\ replacer_ = LRUKReplacer(MaxPoolSize, MaxBpmK)
    /\ free_list_ = [i \in 1..MaxPoolSize |-> i - 1]
    /\ next_page_id_ = 0
    /\ disk = [p \in PageIds |-> 0]
    /\ io = <<>>
    /\ ret = Result("Init", TRUE, -1)
    /\ crashed = FALSE
    /\ pc = 0
    /\ expected = EmptyMap
    /\ threads = <<>>
    /\ root_ = Trie
    /\ handles = EmptyMap

SpecCaller == InitCaller /\ [][NextCaller]_vars

-----------------------------------------------------------------------------
(* The buffer pool manager called by several threads.  Every ...PgImp      *)
(* opens with std::scoped_lock lock(latch_) and runs to its return under    *)
(* that latch; the calls it makes into the page table and the replacer take *)
(* and release those objects' own latches inside.  FlushAllPgsImp takes no  *)
(* latch itself: it reads pages_[i].page_id_ and calls FlushPgImp once per  *)
(* frame.  A thread is at                                                    *)
(*   "idle"     outside the buffer pool manager,                             *)
(*   "lock"     in a ...PgImp, waiting for latch_,                           *)
(*   "body"     in a ...PgImp, holding latch_,                               *)
(*   "loop"     in FlushAllPgsImp, before reading pages_[i].page_id_,        *)
(* and all records whether the ...PgImp is a FlushPgImp called by the loop  *)
(* of FlushAllPgsImp for frame i with the page id read.                     *)

Threads == 1..MaxThreads

Idle == [at |-> "idle", all |-> FALSE, i |-> 0, page_id |-> INVALID_PAGE_ID]

\* the threads that hold the buffer pool manager's latch_
LatchHolders == {t \in Threads : threads[t].at = "body"}

InitThreads ==
    \E replacer_k \in 1..MaxBpmK :
        /\ pages_ = [f \in 0..0 |-> NoPage]
        /\ page_table_ = ExtendibleHashTable(bucket_size_)
        /\ replacer_ = LRUKReplacer(1, replacer_k)
        /\ free_list_ = <<0>>
        /\ next_page_id_ = 0
        /\ disk = [p \in PageIds |-> 0]
        /\ io = <<>>
        /\ ret = Result("Init", TRUE, -1)
        /\ crashed = FALSE
        /\ pc = 0
        /\ expected = EmptyMap
        /\ threads = [t \in Threads |-> Idle]
        /\ root_ = Trie
        /\ handles = EmptyMap

DataUnchanged ==
    UNCHANGED <<replacer_, page_table_, pages_, free_list_, next_page_id_, disk, io, ret,
                crashed, pc, expected, root_, handles>>

\* thread t calls one of NewPgImp, FetchPgImp, UnpinPgImp, FlushPgImp,
\* DeletePgImp and reaches its scoped_lock
CallPgImp(t) ==
    /\ ~crashed /\ threads[t].at = "idle"
    /\ threads' = [threads EXCEPT ![t].at = "lock"]
    /\ DataUnchanged

\* thread t calls FlushAllPgsImp
CallFlushAll(t) ==
    /\ ~crashed /\ threads[t].at = "idle"
    /\ threads' = [threads EXCEPT ![t] = [Idle EXCEPT !.at = "loop", !.all = TRUE]]
    /\ DataUnchanged

\* the loop of FlushAllPgsImp: the test i < pool_size_, the unlatched read of
\* pages_[i].GetPageId() and the call of FlushPgImp
LoopFlushAll(t) ==
    /\ ~crashed /\ threads[t].at = "loop"
    /\ threads' = [threads EXCEPT ![t] =
                      IF threads[t].i < pool_size_
                      THEN [@ EXCEPT !.at = "lock", !.page_id = pages_[threads[t].i].page_id_]
                      ELSE Idle]
    /\ DataUnchanged

\* std::scoped_lock lock(latch_) succeeds for thread t
LockLatch(t) ==
    /\ ~crashed /\ threads[t].at = "lock"
    /\ LatchHolders = {}
    /\ threads' = [threads EXCEPT ![t].at = "body"]
    /\ DataUnchanged

\* where thread t is after the return of its ...PgImp (the latch is released
\* by the scoped_lock); a thread whose process died stays where it was
AfterReturn(t) ==
    threads' = [threads EXCEPT ![t] =
                   IF crashed' THEN @
                   ELSE IF @.all THEN [@ EXCEPT !.at = "loop", !.i = @ + 1]
                   ELSE Idle]

\* thread t runs the ...PgImp it has called, from the lock to the return
BodyNewPg(t) ==
    /\ threads[t].at = "body" /\ ~threads[t].all
    /\ NewPgImp /\ AfterReturn(t) /\ UNCHANGED <<pc, expected, root_, handles>>

BodyFetchPg(t, p) ==
    /\ threads[t].at = "body" /\ ~threads[t].all
    /\ FetchPgImp(p) /\ AfterReturn(t) /\ UNCHANGED <<pc, expected, root_, handles>>

BodyUnpinPg(t, p, d) ==
    /\ threads[t].at = "body" /\ ~threads[t].all
    /\ UnpinPgImp(p, d) /\ AfterReturn(t) /\ UNCHANGED <<pc, expected, root_, handles>>

BodyFlushPg(t, p) ==
    /\ threads[t].at = "body"
    /\ threads[t].all => p = threads[t].page_id
    /\ FlushPgImp(p) /\ AfterReturn(t) /\ UNCHANGED <<pc, expected, root_, handles>>

BodyDeletePg(t, p, u) ==
    /\ threads[t].at = "body" /\ ~threads[t].all
    /\ DeletePgImp(p, u) /\ AfterReturn(t) /\ UNCHANGED <<pc, expected, root_, handles>>

\* thread t runs the body of the ...PgImp it is in
Body(t) ==
    \/ BodyNewPg(t)
    \/ \E p \in PageIds : BodyFetchPg(t, p)
    \/ \E p \in PageIds : BodyUnpinPg(t, p, FALSE)
    \/ \E p \in PageIds \cup {INVALID_PAGE_ID} : BodyFlushPg(t, p)
    \/ \E p \in PageIds, u \in UBOutcomes : BodyDeletePg(t, p, u)

NextThreads ==
    \E t \in Threads :
        \/ CallPgImp(t)
        \/ CallFlushAll(t)
        \/ LoopFlushAll(t)
        \/ LockLatch(t)
        \/ Body(t)

\* A running thread keeps running, and a thread waiting for a std::mutex that
\* is released again and again gets it in the end.
FairThreads ==
    \A t \in Threads :
        /\ WF_vars(LoopFlushAll(t))
        /\ WF_vars(Body(t))
        /\ SF_vars(LockLatch(t))

SpecThreads == InitThreads /\ [][NextThreads]_vars /\ FairThreads

-----------------------------------------------------------------------------
(* The replacer called by several threads.  replacer_.latch_ is the         *)
(* std::mutex: TRUE while a thread holds it.  Evict, SetEvictable and       *)
(* Remove take it with a scoped_lock; RecordAccess locks and unlocks by     *)
(* hand and lets go of it around its call of Evict; Size takes no lock.     *)

\* a thread outside the replacer
ReplacerIdle == [at |-> "idle", frame_id |-> -1, evict_flag |-> FALSE]

InitReplacerThreads ==
    \E k \in 1..MaxBpmK :
        /\ replacer_ = LRUKReplacer(1, k)
        /\ page_table_ = ExtendibleHashTable(bucket_size_)
        /\ pages_ = <<>>
        /\ free_list_ = <<>>
        /\ next_page_id_ = 0
        /\ disk = <<>>
        /\ io = <<>>
        /\ ret = Result("Init", TRUE, -1)
        /\ crashed = FALSE
        /\ pc = 0
        /\ expected = EmptyMap
        /\ threads = [t \in Threads |-> ReplacerIdle]
        /\ root_ = Trie
        /\ handles = EmptyMap

ReplacerRest ==
    UNCHANGED <<page_table_, pages_, free_list_, next_page_id_, disk, io, pc, expected, root_, handles>>

\* latch_.unlock(), or the end of a scoped_lock
Unlocked(R) == [R EXCEPT !.latch_ = FALSE]

\* lines 95-105 of RecordAccess run on whatever the replacer holds once
\* latch_ has been taken again after Evict
RecordAccessResume(R, f) ==
    LET ts == R.current_timestamp_ + 1
    IN  [R EXCEPT !.current_timestamp_ = ts,
                  !.record_cnt_     = MapPut(@, f, IF f \in DOMAIN @ THEN @[f] + 1 ELSE 1),
                  !.is_evictable_   = MapPut(@, f, FALSE),
                  !.timestamp_list_ = MapPut(@, f, IF f \in DOMAIN @ THEN <<ts>> \o @[f] ELSE <<ts>>),
                  !.history_list_   = IF f \in Range(@) THEN @ ELSE <<f>> \o @]

\* thread t calls Evict, RecordAccess, SetEvictable or Remove
CallReplacer(t) ==
    /\ ~crashed /\ threads[t].at = "idle"
    /\ threads' = [threads EXCEPT ![t].at = "lock"]
    /\ UNCHANGED <<replacer_, ret, crashed>> /\ ReplacerRest

\* latch_.lock() / scoped_lock at the head of the operation
LockReplacer(t) ==
    /\ ~crashed /\ threads[t].at = "lock"
    /\ ~replacer_.latch_
    /\ replacer_' = [replacer_ EXCEPT !.latch_ = TRUE]
    /\ threads' = [threads EXCEPT ![t].at = "body"]
    /\ UNCHANGED <<ret, crashed>> /\ ReplacerRest

\* the body of Evict
BodyEvict(t) ==
    /\ ~crashed /\ threads[t].at = "body"
    /\ LET e == Evict(replacer_)
       IN  /\ replacer_' = Unlocked(e.R)
           /\ ret' = Result("Evict", e.ok, e.frame_id)
    /\ threads' = [threads EXCEPT ![t] = ReplacerIdle]
    /\ UNCHANGED crashed /\ ReplacerRest

\* the body of SetEvictable
BodySetEvictable(t, f, set_evictable) ==
    /\ ~crashed /\ threads[t].at = "body"
    /\ replacer_' = Unlocked(SetEvictable(replacer_, f, set_evictable))
    /\ ret' = Result("SetEvictable", TRUE, -1)
    /\ threads' = [threads EXCEPT ![t] = ReplacerIdle]
    /\ UNCHANGED crashed /\ ReplacerRest

\* the body of Remove: the scoped_lock lets go of latch_ when it throws
BodyRemove(t, f, u) ==
    /\ ~crashed /\ threads[t].at = "body"
    /\ LET r == Remove(replacer_, f, u)
       IN  /\ replacer_' = IF r.crash THEN r.R ELSE Unlocked(r.R)
           /\ crashed' = r.crash
           /\ ret' = IF r.thrown \/ r.crash THEN Thrown("Remove") ELSE Result("Remove", TRUE, -1)
           /\ threads' = [threads EXCEPT ![t] = IF r.crash THEN @ ELSE ReplacerIdle]
    /\ ReplacerRest

\* the body of RecordAccess up to its return, its throw (latch_ stays
\* locked) or its latch_.unlock() before the call of Evict
BodyRecordAccess(t, f) ==
    /\ ~crashed /\ threads[t].at = "body"
    /\ replacer_.current_timestamp_ < MaxClock
    /\ IF f > replacer_.replacer_size_
       THEN /\ ret' = Thrown("RecordAccess")
            /\ threads' = [threads EXCEPT ![t] = ReplacerIdle]
            /\ UNCHANGED replacer_
       ELSE IF f \notin DOMAIN replacer_.record_cnt_ /\ Size(replacer_) = replacer_.replacer_size_
       THEN /\ replacer_' = Unlocked(replacer_)
            /\ threads' = [threads EXCEPT ![t] = [ReplacerIdle EXCEPT !.at = "evict", !.frame_id = f]]
            /\ UNCHANGED ret
       ELSE /\ replacer_' = Unlocked(RecordAccess(replacer_, f).R)
            /\ ret' = Result("RecordAccess", TRUE, -1)
            /\ threads' = [threads EXCEPT ![t] = ReplacerIdle]
    /\ UNCHANGED crashed /\ ReplacerRest

\* RecordAccess's call of Evict, which takes latch_ itself
InnerEvict(t) ==
    /\ ~crashed /\ threads[t].at = "evict"
    /\ ~replacer_.latch_
    /\ LET e == Evict(replacer_)
       IN  /\ replacer_' = e.R
           /\ threads' = [threads EXCEPT ![t].at = "relock", ![t].evict_flag = e.ok]
    /\ UNCHANGED <<ret, crashed>> /\ ReplacerRest

\* RecordAccess after Evict: latch_.lock(), then return if nothing was
\* evicted, else record the access
ResumeRecordAccess(t) ==
    /\ ~crashed /\ threads[t].at = "relock"
    /\ ~replacer_.latch_
    /\ replacer_' = IF threads[t].evict_flag
                    THEN RecordAccessResume(replacer_, threads[t].frame_id)
                    ELSE replacer_
    /\ ret' = Result("RecordAccess", TRUE, -1)
    /\ threads' = [threads EXCEPT ![t] = ReplacerIdle]
    /\ UNCHANGED crashed /\ ReplacerRest

\* Size: curr_size_ is read without latch_; frame is the value returned
SizeCall(t) ==
    /\ ~crashed /\ threads[t].at = "idle"
    /\ ret' = Result("Size", TRUE, Size(replacer_))
    /\ UNCHANGED <<replacer_, threads, crashed>> /\ ReplacerRest

NextReplacerThreads ==
    \E t \in Threads :
        \/ CallReplacer(t)
        \/ LockReplacer(t)
        \/ BodyEvict(t)
        \/ \E f \in ReplacerFrames : BodyRecordAccess(t, f)
        \/ \E f \in ReplacerFrames, b \in BOOLEAN : BodySetEvictable(t, f, b)
        \/ \E f \in ReplacerFrames, u \in UBOutcomes : BodyRemove(t, f, u)
        \/ InnerEvict(t)
        \/ ResumeRecordAccess(t)
        \/ SizeCall(t)

SpecReplacerThreads == InitReplacerThreads /\ [][NextReplacerThreads]_vars

-----------------------------------------------------------------------------
(* The hash table on its own, driven by arbitrary calls. *)

Keys == 0..MaxKey

Values == 0..MaxValue

InitTable ==
    \E bucket_size \in 1..MaxBucketSize :
        /\ page_table_ = ExtendibleHashTable(bucket_size)
        /\ replacer_ = LRUKReplacer(1, 1)
        /\ pages_ = <<>>
        /\ free_list_ = <<>>
        /\ next_page_id_ = 0
        /\ disk = <<>>
        /\ io = <<>>
        /\ ret = Result("Init", TRUE, -1)
        /\ crashed = FALSE
        /\ pc = 0
        /\ expected = EmptyMap
        /\ threads = <<>>
        /\ root_ = Trie
        /\ handles = EmptyMap

TableUnchanged ==
    UNCHANGED <<replacer_, pages_, free_list_, next_page_id_, disk, io, crashed, pc, threads, root_, handles>>

\* a call of ExtendibleHashTable::Find; frame is the value found
FindCall(key) ==
    /\ ~crashed
    /\ ret' = Result("Find", Find(page_table_, key).ok, Find(page_table_, key).value)
    /\ UNCHANGED <<page_table_, expected>> /\ TableUnchanged

\* a call of ExtendibleHashTable::Insert
InsertCall(key, value) ==
    /\ ~crashed
    /\ LET r == InsertLoop(page_table_, key, value)
       IN  IF r.returned
           THEN /\ page_table_' = r.T
                /\ expected' = MapPut(expected, key, value)
                /\ ret' = Result("Insert", TRUE, -1)
                /\ UNCHANGED crashed
           ELSE /\ crashed' = TRUE
                /\ ret' = Thrown("Insert")
                /\ UNCHANGED <<page_table_, expected>>
    /\ UNCHANGED <<replacer_, pages_, free_list_, next_page_id_, disk, io, pc, threads, root_, handles>>

\* a call of ExtendibleHashTable::Remove
TableRemoveCall(key) ==
    /\ ~crashed
    /\ page_table_' = TableRemove(page_table_, key).T
    /\ expected' = MapErase(expected, key)
    /\ ret' = Result("TableRemove", TableRemove(page_table_, key).ok, -1)
    /\ TableUnchanged

NextTable ==
    \/ \E key \in Keys : FindCall(key)
    \/ \E key \in Keys, value \in Values : InsertCall(key, value)
    \/ \E key \in Keys : TableRemoveCall(key)

SpecTable == InitTable /\ [][NextTable]_vars

\* The constructor takes any size_t: the same calls on tables constructed
\* with every bucket_size in 0..MaxBucketSize.
InitTableAnySize ==
    \E bucket_size \in 0..MaxBucketSize :
        /\ page_table_ = ExtendibleHashTable(bucket_size)
        /\ replacer_ = LRUKReplacer(1, 1)
        /\ pages_ = <<>>
        /\ free_list_ = <<>>
        /\ next_page_id_ = 0
        /\ disk = <<>>
        /\ io = <<>>
        /\ ret = Result("Init", TRUE, -1)
        /\ crashed = FALSE
        /\ pc = 0
        /\ expected = EmptyMap
        /\ threads = <<>>
        /\ root_ = Trie
        /\ handles = EmptyMap

SpecTableAnySize == InitTableAnySize /\ [][NextTable]_vars

-----------------------------------------------------------------------------
(* The trie on its own, driven by arbitrary calls. *)

Chars == 1..MaxChar

TrieKeys == UNION {[1..n -> Chars] : n \in 0..MaxKeyLen}

InitTrie ==
    /\ root_ = Trie
    /\ handles = EmptyMap
    /\ page_table_ = ExtendibleHashTable(1)
    /\ replacer_ = LRUKReplacer(1, 1)
    /\ pages_ = <<>>
    /\ free_list_ = <<>>
    /\ next_page_id_ = 0
    /\ disk = <<>>
    /\ io = <<>>
    /\ ret = Result("Init", TRUE, -1)
    /\ crashed = FALSE
    /\ pc = 0
    /\ expected = EmptyMap
    /\ threads = <<>>

TrieUnchanged ==
    UNCHANGED <<replacer_, page_table_, pages_, free_list_, next_page_id_, disk, io, crashed,
                pc, expected, threads, handles>>

\* a call of Trie::Insert
TrieInsertCall(key, value) ==
    /\ root_' = TrieInsert(root_, key, value).T
    /\ ret' = Result("TrieInsert", TrieInsert(root_, key, value).ok, -1)
    /\ TrieUnchanged

\* a call of Trie::Remove
TrieRemoveCall(key) ==
    /\ root_' = TrieRemove(root_, key).T
    /\ ret' = Result("TrieRemove", TrieRemove(root_, key).ok, -1)
    /\ TrieUnchanged

\* a call of Trie::GetValue; frame is the value returned
GetValueCall(key) ==
    /\ ret' = Result("GetValue", GetValue(root_, key).success, GetValue(root_, key).value)
    /\ UNCHANGED root_ /\ TrieUnchanged

NextTrie ==
    \/ \E key \in TrieKeys, value \in Values : TrieInsertCall(key, value)
    \/ \E key \in TrieKeys : TrieRemoveCall(key)
    \/ \E key \in TrieKeys : GetValueCall(key)

SpecTrie == InitTrie /\ [][NextTrie]_vars

-----------------------------------------------------------------------------
(* The buffer pool manager of the concrete scenarios: pool_size = 3, k = 2, *)
(* driven by a caller that follows a script of calls and may leave it at    *)
(* any point for arbitrary new_page / fetch_page / unpin_page calls.        *)

Call(op, page) == [op |-> op, page |-> page]

ScriptPages == 0..MaxScriptPageId

\* the pages p1, p2, p3 of the scenarios are the first three ids allocated
ScriptLruK ==
    << Call("NewPg", -1), Call("NewPg", -1), Call("NewPg", -1),
       Call("UnpinPg", 0), Call("UnpinPg", 1), Call("UnpinPg", 2),
       Call("FetchPg", 0), Call("UnpinPg", 0),
       Call("FetchPg", 0), Call("UnpinPg", 0),
       Call("NewPg", -1) >>

\* the caller's position after the call c
Follow(script, c) ==
    /\ pc' = IF pc \in 1..Len(script) /\ script[pc] = c THEN pc + 1 ELSE -1
    /\ UNCHANGED <<expected, threads, root_, handles>>

InitScenario ==
    /\ pages_ = [f \in 0..2 |-> NoPage]
    /\ page_table_ = ExtendibleHashTable(bucket_size_)
    /\ replacer_ = LRUKReplacer(3, 2)
    /\ free_list_ = <<0, 1, 2>>
    /\ next_page_id_ = 0
    /\ disk = [p \in ScriptPages |-> 0]
    /\ io = <<>>
    /\ ret = Result("Init", TRUE, -1)
    /\ crashed = FALSE
    /\ pc = 1
    /\ expected = EmptyMap
    /\ threads = <<>>
    /\ root_ = Trie
    /\ handles = EmptyMap

NextLruK ==
    \/ NewPgImp /\ Follow(ScriptLruK, Call("NewPg", -1))
    \/ \E p \in ScriptPages : FetchPgImp(p) /\ Follow(ScriptLruK, Call("FetchPg", p))
    \/ \E p \in ScriptPages : UnpinPgImp(p, FALSE) /\ Follow(ScriptLruK, Call("UnpinPg", p))

SpecLruK == InitScenario /\ [][NextLruK]_vars

-----------------------------------------------------------------------------
(* Properties of the buffer pool manager. *)

\* the tracked frames of a replacer that Evict may select
EvictableFrames(R) == {f \in DOMAIN R.record_cnt_ : IsEvictableAt(R, f)}

\* the frame the page table maps page p to
FrameOf(p) == Find(page_table_, p).value

Resident(p) == Find(page_table_, p).ok

\* C1: for every resident page p (page table p -> f), fetch_page(p) returns
\* frame f itself, raises f's pin count by exactly one, takes no frame from
\* the free list or the replacer and issues no read_page or write_page.
C1_FetchHitReturnsResidentFrame ==
    [][\A p \in PageIds :
          (FetchPgImp(p) /\ Resident(p)) =>
              /\ ret'.ok /\ ret'.frame = FrameOf(p)
              /\ pages_'[FrameOf(p)].pin_count_ = pages_[FrameOf(p)].pin_count_ + 1
              /\ free_list_' = free_list_
              /\ DOMAIN replacer_'.record_cnt_ \ {FrameOf(p)} = DOMAIN replacer_.record_cnt_ \ {FrameOf(p)}
              /\ io' = <<>>]_vars

\* C2 (state part): a frame with pin_count_ > 0 is not evictable.
PinnedNotEvictable ==
    \A f \in FrameIds : pages_[f].pin_count_ > 0 => ~IsEvictableAt(replacer_, f)

\* C2: in every reachable state a pinned frame is non-evictable in the
\* replacer, and the frame a successful new_page or fetch_page hands out had
\* pin count 0 before the call: no frame a caller still has pinned is
\* evicted and reused.
C2_PinnedFrameNeverEvicted ==
    /\ PinnedNotEvictable
    /\ [][/\ PinnedNotEvictable'
          /\ (ret'.op \in {"NewPg", "FetchPg"} /\ ret'.ok) => pages_[ret'.frame].pin_count_ = 0]_vars

\* C2 witness: with another frame still pinned, a frame that was unpinned to
\* 0 has been evicted and reused.
C2_Witness ==
    /\ ret.op \in {"NewPg", "FetchPg"} /\ ret.ok
    /\ free_list_ = <<>>
    /\ \E i \in DOMAIN io : io[i][1] = "write"
    /\ \E g \in FrameIds : g # ret.frame /\ pages_[g].pin_count_ > 0

\* C5: new_page returns None exactly when the free list is empty and the
\* replacer has no evictable frame (every frame is pinned); then no page id
\* is allocated and page table, frames, free list and replacer are unchanged.
C5_NewPageNoneIffNoFrame ==
    [][ret'.op = "NewPg" =>
          LET none == free_list_ = <<>> /\ EvictableFrames(replacer_) = {}
          IN  /\ ~ret'.ok <=> none
              /\ none => \A f \in FrameIds : pages_[f].pin_count_ > 0
              /\ ~ret'.ok => /\ next_page_id_' = next_page_id_
                             /\ page_table_' = page_table_
                             /\ pages_' = pages_
                             /\ free_list_' = free_list_
                             /\ replacer_' = replacer_
                             /\ io' = <<>>]_vars

\* C5 witness: new_page has just returned None with every frame pinned.
C5_Witness ==
    /\ ret.op = "NewPg" /\ ~ret.ok
    /\ free_list_ = <<>>
    /\ \A f \in FrameIds : pages_[f].pin_count_ > 0 /\ pages_[f].page_id_ # INVALID_PAGE_ID

\* C6: fetch_page(p) returns None only when p is not resident and no frame
\* is obtainable; a call that returns None leaves every pin count, the page
\* table and the replacer unchanged.
C6_FetchNoneOnlyOnMiss ==
    [][\A p \in PageIds :
          (FetchPgImp(p) /\ ~ret'.ok) =>
              /\ ~Resident(p)
              /\ free_list_ = <<>> /\ EvictableFrames(replacer_) = {}
              /\ pages_' = pages_
              /\ page_table_' = page_table_
              /\ replacer_' = replacer_]_vars

\* the write_page requests of a request log
Writes(log) == SelectSeq(log, LAMBDA e : e[1] = "write")

\* C7: when new_page or fetch_page evicts a frame whose page q is dirty,
\* exactly one write_page(q, bytes) is issued for it, it carries the bytes the
\* frame held before it was reset, and it precedes the read that refills
\* the frame.
C7_DirtyVictimWrittenOnce ==
    [][(/\ ret'.op \in {"NewPg", "FetchPg"} /\ ret'.ok
        /\ free_list_ = <<>>
        /\ pages_[ret'.frame].is_dirty_) =>
          LET f == ret'.frame
              q == pages_[f].page_id_
          IN  /\ Len(Writes(io')) = 1
              /\ io'[1] = <<"write", q, pages_[f].data_>>
              /\ disk'[q] = pages_[f].data_]_vars

\* C7 witness: a page whose buffer a caller had modified has just been
\* evicted, and its frame holds another page.
C7_Witness ==
    /\ ret.op \in {"NewPg", "FetchPg"} /\ ret.ok
    /\ \E i \in DOMAIN io :
          /\ io[i][1] = "write" /\ io[i][3] # 0
          /\ io[i][2] # pages_[ret.frame].page_id_
          /\ disk[io[i][2]] = io[i][3]

\* C8: unpin_page(p, false) never clears a dirty bit; a set dirty bit of a
\* frame is cleared only by a flush, an eviction or a delete.
C8_UnpinFalseKeepsDirty ==
    [][/\ \A p \in PageIds :
             (UnpinPgImp(p, FALSE) /\ Resident(p) /\ pages_[FrameOf(p)].is_dirty_)
                 => pages_'[FrameOf(p)].is_dirty_
       /\ \A f \in FrameIds :
             (pages_[f].is_dirty_ /\ ~pages_'[f].is_dirty_)
                 => \/ ret'.op \in {"FlushPg", "FlushAllPgs", "DeletePg"}
                    \/ ret'.op \in {"NewPg", "FetchPg"} /\ ret'.frame = f]_vars

\* C8 witness: a frame pinned twice has been unpinned twice, down to 0, and
\* is dirty: the second unpin met the bit the first one had set.
C8_Witness ==
    /\ ret.op = "UnpinPg" /\ ret.ok
    /\ \E f \in FrameIds :
          /\ pages_[f].is_dirty_ /\ pages_[f].pin_count_ = 0
          /\ f \in DOMAIN replacer_.record_cnt_ /\ replacer_.record_cnt_[f] >= 2
          /\ pages_[f].page_id_ # INVALID_PAGE_ID

\* C9: unpin_page(p, false) on a resident page whose dirty bit is clear
\* leaves the bit clear.
C9_UnpinFalseLeavesClean ==
    [][\A p \in PageIds :
          (UnpinPgImp(p, FALSE) /\ Resident(p) /\ ~pages_[FrameOf(p)].is_dirty_)
              => ~pages_'[FrameOf(p)].is_dirty_]_vars

\* C10: unpin_page(p, d) returns false and changes nothing when p is not in
\* the page table or its pin count is already 0, and returns true otherwise.
C10_UnpinFalseIffAbsentOrUnpinned ==
    [][\A p \in PageIds, d \in BOOLEAN :
          UnpinPgImp(p, d) =>
              LET refused == ~Resident(p) \/ pages_[FrameOf(p)].pin_count_ = 0
              IN  /\ ret'.ok <=> ~refused
                  /\ refused => /\ pages_' = pages_
                                /\ replacer_' = replacer_
                                /\ page_table_' = page_table_
                                /\ free_list_' = free_list_
                                /\ disk' = disk
                  /\ \A f \in FrameIds : pages_'[f].pin_count_ >= 0]_vars

\* C10 witness: every page is resident with pin count 0 and the last
\* unpin_page returned false.
C10_Witness ==
    /\ ret.op = "UnpinPg" /\ ~ret.ok
    /\ \A p \in PageIds : Resident(p) /\ pages_[FrameOf(p)].pin_count_ = 0

\* C11: a successful unpin_page(p, d) lowers p's pin count by exactly one,
\* and p's frame is evictable in the replacer afterwards exactly when the
\* count has reached 0; while another pin remains it stays non-evictable.
C11_UnpinDecrementsAndReleasesAtZero ==
    [][\A p \in PageIds, d \in BOOLEAN :
          (UnpinPgImp(p, d) /\ ret'.ok) =>
              LET f == FrameOf(p)
              IN  /\ pages_'[f].pin_count_ = pages_[f].pin_count_ - 1
                  /\ IsEvictableAt(replacer_', f) <=> pages_'[f].pin_count_ = 0
                  /\ f \in DOMAIN replacer_'.record_cnt_]_vars

\* C11 witness: the only frame of the pool was pinned twice and the last
\* unpin_page succeeded and left one pin: the frame is not evictable.
C11_Witness ==
    /\ ret.op = "UnpinPg" /\ ret.ok
    /\ pool_size_ = 1
    /\ pages_[0].pin_count_ = 1 /\ pages_[0].page_id_ # INVALID_PAGE_ID
    /\ ~IsEvictableAt(replacer_, 0)

\* C12: flush_page(p) returns false and issues no write when p is INVALID
\* or not resident; otherwise it issues one write_page(p, buf) whatever the
\* dirty bit is, clears the dirty bit and returns true, the disk bytes of p
\* then equal the buffer, and pin count, page table and replacer are
\* unchanged.
C12_FlushWritesResidentPage ==
    [][\A p \in PageIds \cup {INVALID_PAGE_ID} :
          FlushPgImp(p) =>
              IF p = INVALID_PAGE_ID \/ ~Resident(p)
              THEN /\ ~ret'.ok /\ io' = <<>>
                   /\ disk' = disk /\ pages_' = pages_
              ELSE LET f == FrameOf(p)
                   IN  /\ ret'.ok
                       /\ io' = << <<"write", p, pages_[f].data_>> >>
                       /\ ~pages_'[f].is_dirty_
                       /\ disk'[p] = pages_'[f].data_
                       /\ pages_' = [pages_ EXCEPT ![f].is_dirty_ = FALSE]
                       /\ page_table_' = page_table_
                       /\ replacer_' = replacer_]_vars

\* C12 witness: flush_page has just written a pinned page whose buffer a
\* caller had modified, and the disk holds the buffer's bytes.
C12_Witness ==
    /\ ret.op = "FlushPg" /\ ret.ok
    /\ Len(io) = 1 /\ io[1][1] = "write" /\ io[1][3] # 0
    /\ Resident(io[1][2])
    /\ pages_[FrameOf(io[1][2])].pin_count_ > 0
    /\ disk[io[1][2]] = pages_[FrameOf(io[1][2])].data_

\* C13: delete_page(p) returns true and changes nothing when p is not
\* resident, and returns false and changes nothing (no write; page table,
\* free list, replacer and frames unchanged) when p is resident and pinned.
C13_DeleteAbsentOrPinnedChangesNothing ==
    [][\A p \in PageIds, u \in UBOutcomes :
          (DeletePgImp(p, u) /\ (~Resident(p) \/ pages_[FrameOf(p)].pin_count_ > 0)) =>
              /\ ~ret'.thrown
              /\ ret'.ok <=> ~Resident(p)
              /\ io' = <<>> /\ disk' = disk
              /\ page_table_' = page_table_
              /\ free_list_' = free_list_
              /\ replacer_' = replacer_
              /\ pages_' = pages_
              /\ crashed' = crashed]_vars

\* C13 witness: delete_page has just returned false, for a pinned page.
C13_Witness ==
    /\ ret.op = "DeletePg" /\ ~ret.ok /\ ~ret.thrown
    /\ \E p \in PageIds : Resident(p) /\ pages_[FrameOf(p)].pin_count_ > 0

\* the number of occurrences of x in the list s
Count(s, x) == Cardinality({i \in DOMAIN s : s[i] = x})

\* C14: delete_page(p) on a resident page with pin count 0 returns true
\* without raising an error; afterwards p is not in the page table, its
\* frame is in the free list exactly once, is not tracked by the replacer
\* and has page_id INVALID, pin count 0 and dirty false; a later
\* fetch_page(p) is a miss that reads p from disk.
C14_DeleteUnpinnedFreesFrame ==
    [][\A p \in PageIds :
          /\ \A u \in UBOutcomes :
                (DeletePgImp(p, u) /\ Resident(p) /\ pages_[FrameOf(p)].pin_count_ = 0) =>
                    LET f == FrameOf(p)
                    IN  /\ ~crashed' /\ ~ret'.thrown /\ ret'.ok
                        /\ ~Find(page_table_', p).ok
                        /\ Count(free_list_', f) = 1
                        /\ f \notin DOMAIN replacer_'.record_cnt_
                        /\ pages_'[f] = NoPage
          /\ (FetchPgImp(p) /\ ~Resident(p) /\ ret'.ok) =>
                io'[Len(io')] = <<"read", p, disk'[p]>>]_vars

\* the frames that hold a page
HoldsPage(f) == pages_[f].page_id_ # INVALID_PAGE_ID

\* C15: flush_all writes every resident page to disk and clears its dirty
\* bit, and issues no write_page for a frame whose page_id is INVALID.
C15_FlushAllWritesResidentPages ==
    [][FlushAllPgsImp =>
          /\ \A p \in PageIds :
                Resident(p) =>
                    LET f == FrameOf(p)
                    IN  /\ \E i \in DOMAIN io' : io'[i] = <<"write", p, pages_[f].data_>>
                        /\ disk'[p] = pages_[f].data_
                        /\ ~pages_'[f].is_dirty_
          /\ \A i \in DOMAIN io' :
                io'[i][1] = "write" /\ io'[i][2] # INVALID_PAGE_ID /\ Resident(io'[i][2])
          /\ Len(io') <= Cardinality({f \in FrameIds : HoldsPage(f)})]_vars

\* C15 witness: flush_all has just written a modified page while another
\* frame of the pool holds no page.
C15_Witness ==
    /\ ret.op = "FlushAllPgs"
    /\ Len(io) = 1 /\ io[1][3] # 0
    /\ \E f \in FrameIds : ~HoldsPage(f)
    /\ \E f \in FrameIds : HoldsPage(f) /\ ~pages_[f].is_dirty_ /\ pages_[f].data_ = disk[pages_[f].page_id_]

\* C16: with pool_size = 3 and k = 2, after three new_page calls (p1, p2,
\* p3), each page unpinned, then fetch(p1); unpin(p1, false); fetch(p1);
\* unpin(p1, false), the next new_page succeeds, evicts the frame holding
\* p2, and p1 is still resident.
C16_LruKPromotionEvictsP2 ==
    [][(pc = Len(ScriptLruK) /\ pc' = pc + 1) =>
          /\ Resident(0) /\ Resident(1) /\ Resident(2)
          /\ ret'.ok /\ ret'.frame = FrameOf(1)
          /\ ~Find(page_table_', 1).ok
          /\ Find(page_table_', 0).ok]_vars

-----------------------------------------------------------------------------
(* Properties of the hash table. *)

\* what Find must answer for key according to the caller's record
ExpectedFind(key) ==
    IF key \in DOMAIN expected
    THEN [ok |-> TRUE, value |-> expected[key]]
    ELSE [ok |-> FALSE, value |-> -1]

\* C17: after any sequence of insert and remove calls, find(k) returns the
\* value of the last insert(k, v) not followed by remove(k) and reports
\* not-found for every other key, and remove(k) returns true exactly when
\* k was present.
C17_FindReturnsLastInsert ==
    /\ \A key \in Keys : Find(page_table_, key) = ExpectedFind(key)
    /\ [][/\ \A key \in Keys : Find(page_table_', key) = ExpectedFind(key)'
          /\ \A key \in Keys :
                /\ FindCall(key) =>
                      /\ ret'.ok <=> key \in DOMAIN expected
                      /\ ret'.ok => ret'.frame = expected[key]
                /\ TableRemoveCall(key) => (ret'.ok <=> key \in DOMAIN expected)]_vars

\* C17 witness: a key has just been removed from a table that has split
\* twice and still holds other keys, one of them with an overwritten value.
C17_Witness ==
    /\ ret.op = "TableRemove" /\ ret.ok
    /\ page_table_.num_buckets_ >= 3
    /\ Cardinality(DOMAIN expected) >= 2
    /\ \E key \in DOMAIN expected :
          /\ expected[key] # 0
          /\ Find(page_table_, key).value = expected[key]
          /\ BucketOf(page_table_, key) # 1

-----------------------------------------------------------------------------
(* Properties of the replacer. *)

\* the timestamp of the k-th most recent access of a frame with >= k accesses
KthRecent(R, f) == R.timestamp_list_[f][R.k_]

\* the timestamp of the first recorded access of a tracked frame
FirstAccess(R, f) == R.timestamp_list_[f][Len(R.timestamp_list_[f])]

\* the evictable frames with fewer than k recorded accesses
InfFrames(R) == {f \in EvictableFrames(R) : R.record_cnt_[f] < R.k_}

\* C3: when every evictable frame has at least k recorded accesses, evict
\* selects the evictable frame with the greatest backward k-distance: the
\* one whose k-th most recent access is the earliest.
C3_EvictsGreatestKDistance ==
    [][(/\ ret'.op = "Evict" /\ ret'.ok
        /\ \A g \in EvictableFrames(replacer_) : replacer_.record_cnt_[g] >= replacer_.k_) =>
          /\ ret'.frame \in EvictableFrames(replacer_)
          /\ \A g \in EvictableFrames(replacer_) :
                KthRecent(replacer_, ret'.frame) <= KthRecent(replacer_, g)]_vars

\* C4: evict selects an evictable frame with fewer than k recorded accesses
\* whenever one exists, in preference to every frame with k or more, and
\* among several the one whose first recorded access is the earliest.
C4_EvictsHistoryFifoFirst ==
    [][(ret'.op = "Evict" /\ InfFrames(replacer_) # {}) =>
          /\ ret'.ok
          /\ ret'.frame \in InfFrames(replacer_)
          /\ \A g \in InfFrames(replacer_) :
                FirstAccess(replacer_, ret'.frame) <= FirstAccess(replacer_, g)]_vars

\* C4 witness: evict has returned a frame while another frame with fewer
\* than k accesses and a frame with k accesses were both still evictable.
C4_Witness ==
    /\ ret.op = "Evict" /\ ret.ok
    /\ ret.frame \notin DOMAIN replacer_.record_cnt_
    /\ \E g \in InfFrames(replacer_) : TRUE
    /\ \E h \in EvictableFrames(replacer_) : replacer_.record_cnt_[h] >= replacer_.k_

\* C18: record_access(f) raises an error for every frame id f that is not
\* below the capacity (f >= capacity, f = capacity included) and leaves the
\* replacer's state unchanged in that case.
C18_RecordAccessRejectsOutOfRange ==
    [][\A f \in ReplacerFrames :
          (RecordAccessCall(f) /\ f >= replacer_.replacer_size_) =>
              /\ ret'.thrown
              /\ replacer_' = replacer_]_vars

\* the frames with an entry in one of the replacer's two queues
Queued(R) == Range(R.history_list_) \cup Range(R.cache_list_)

\* C19: for every k >= 1, remove(f) is a no-op when f is untracked; fails
\* with an error and leaves all state unchanged when f is tracked and
\* non-evictable; otherwise drops all of f's state (count, timestamps,
\* queue entry, evictable flag) and lowers size() by exactly one.
C19_RemoveDropsEvictableFrame ==
    [][\A f \in ReplacerFrames, u \in UBOutcomes :
          RemoveCall(f, u) =>
              IF f \notin DOMAIN replacer_.record_cnt_
              THEN ~ret'.thrown /\ ~crashed' /\ replacer_' = replacer_
              ELSE IF ~IsEvictableAt(replacer_, f)
              THEN ret'.thrown /\ ~crashed' /\ replacer_' = replacer_
              ELSE /\ ~ret'.thrown /\ ~crashed'
                   /\ f \notin DOMAIN replacer_'.record_cnt_
                   /\ f \notin DOMAIN replacer_'.timestamp_list_
                   /\ f \notin DOMAIN replacer_'.is_evictable_
                   /\ f \notin Queued(replacer_')
                   /\ Size(replacer_') = Size(replacer_) - 1]_vars

C21_EvictClearsVictim ==
    [][EvictCall =>
          LET f == ret'.frame
              again == RecordAccess(replacer_', f).R
          IN  /\ ret'.ok <=> EvictableFrames(replacer_) # {}
              /\ ~ret'.ok => replacer_' = replacer_
              /\ ret'.ok =>
                    /\ f \in EvictableFrames(replacer_)
                    /\ Size(replacer_') = Size(replacer_) - 1
                    /\ f \notin DOMAIN replacer_'.record_cnt_
                    /\ f \notin DOMAIN replacer_'.timestamp_list_
                    /\ f \notin Queued(replacer_')
                    /\ again.record_cnt_[f] = 1
                    /\ ~IsEvictableAt(again, f)
                    /\ f \in Range(again.history_list_)
                    /\ f \notin Range(again.cache_list_)]_vars

-----------------------------------------------------------------------------
(* More properties of the hash table. *)

\* C22: constructing the hash table with bucket_size = 0 is rejected; no
\* table with zero-capacity buckets comes into use.
C22_ZeroBucketSizeRejected ==
    /\ page_table_.bucket_size_ # 0
    /\ ~IsFull(page_table_, [depth_ |-> 0, list_ |-> <<>>])

\* C23: insert(k, v) always terminates: it splits until the target bucket
\* accepts the pair, and the call returns (with the pair stored, or with an
\* error when the keys cannot be separated) instead of splitting without
\* end.
C23_InsertTerminates ==
    [][\A key \in Keys, value \in Values :
          InsertCall(key, value) =>
              /\ ~crashed'
              /\ ret'.thrown \/ Find(page_table_', key) = [ok |-> TRUE, value |-> value]]_vars

-----------------------------------------------------------------------------
(* Properties of the buffer pool manager under concurrent callers. *)

\* C24: no interleaving of concurrent operations deadlocks: the latches of
\* the page table and the replacer are taken only by the thread that holds
\* the buffer pool manager's latch and are free again when it returns, and
\* every operation a thread has started eventually returns.
C24_NoDeadlock ==
    /\ [](Cardinality(LatchHolders) <= 1 /\ ~replacer_.latch_)
    /\ \A t \in Threads : (threads[t].at # "idle") ~> (threads[t].at = "idle")

-----------------------------------------------------------------------------
(* Invariants of the hash table. *)

\* global depth, directory size and number of buckets of a table
Shape(T) == <<T.global_depth_, Len(T.dir_), T.num_buckets_>>

\* C32: in every reachable state of the hash table the directory has exactly
\* 2^global_depth entries and the local depth of the bucket at every
\* directory index is at most the global depth.
C32_DirectorySizeAndDepths ==
    /\ Len(page_table_.dir_) = Pow2(page_table_.global_depth_)
    /\ \A i \in DOMAIN page_table_.dir_ :
          page_table_.buckets[page_table_.dir_[i]].depth_ <= page_table_.global_depth_

\* the directory has doubled twice and a bucket is shallower than the directory
C32_Witness ==
    /\ page_table_.global_depth_ >= 2
    /\ \E i \in DOMAIN page_table_.dir_ :
          page_table_.buckets[page_table_.dir_[i]].depth_ < page_table_.global_depth_

\* C33: in every reachable state of the hash table any two directory indices
\* that point to the same bucket b agree in their low local_depth(b) bits,
\* and every stored key is held by the bucket at
\* dir[hash(k) & (2^global_depth - 1)] and by no other bucket.
C33_DirectoryAndKeysAgree ==
    /\ \A i \in DOMAIN page_table_.dir_, j \in DOMAIN page_table_.dir_ :
          page_table_.dir_[i] = page_table_.dir_[j] =>
              LowBits(i - 1, page_table_.buckets[page_table_.dir_[i]].depth_)
                  = LowBits(j - 1, page_table_.buckets[page_table_.dir_[i]].depth_)
    /\ \A b \in DOMAIN page_table_.buckets :
          \A n \in DOMAIN page_table_.buckets[b].list_ :
              LET k == page_table_.buckets[b].list_[n][1]
              IN  /\ b = BucketOf(page_table_, k)
                  /\ \A c \in DOMAIN page_table_.buckets :
                        \A m \in DOMAIN page_table_.buckets[c].list_ :
                            page_table_.buckets[c].list_[m][1] = k => (c = b /\ m = n)

\* two directory indices share a bucket, and keys are stored in two buckets
C33_Witness ==
    /\ \E i \in DOMAIN page_table_.dir_, j \in DOMAIN page_table_.dir_ :
          i # j /\ page_table_.dir_[i] = page_table_.dir_[j]
    /\ \E b \in DOMAIN page_table_.buckets, c \in DOMAIN page_table_.buckets :
          b # c /\ page_table_.buckets[b].list_ # <<>> /\ page_table_.buckets[c].list_ # <<>>

\* C34: during insert a split doubles the directory and raises global_depth
\* by one exactly when the overflowing bucket's local depth equals the global
\* depth; a split of a shallower bucket leaves directory size and global
\* depth as they are; every split raises num_buckets by exactly one; an
\* insert of a key that is already present and a remove change none of
\* global_depth, directory size and num_buckets.
C34_SplitDoublesAtGlobalDepth ==
    [][/\ \A key \in Keys, value \in Values :
             (InsertCall(key, value) /\ ~crashed') =>
                 LET ps == Passes(page_table_, key, value)
                 IN  /\ Shape(page_table_') = Shape(ps[Len(ps)])
                     /\ \A n \in 1..(Len(ps) - 1) :
                           LET A == ps[n]
                               B == ps[n + 1]
                               d == A.buckets[BucketOf(A, key)].depth_
                           IN  /\ B.num_buckets_ = A.num_buckets_ + 1
                               /\ d = A.global_depth_ =>
                                     /\ B.global_depth_ = A.global_depth_ + 1
                                     /\ Len(B.dir_) = 2 * Len(A.dir_)
                               /\ d # A.global_depth_ =>
                                     /\ B.global_depth_ = A.global_depth_
                                     /\ Len(B.dir_) = Len(A.dir_)
                     /\ Find(page_table_, key).ok => Shape(page_table_') = Shape(page_table_)
       /\ \A key \in Keys :
             TableRemoveCall(key) => Shape(page_table_') = Shape(page_table_)]_vars

\* an Insert has just split twice, once doubling the directory and once not
C34_Witness ==
    /\ ret.op = "Insert" /\ ~crashed
    /\ page_table_.num_buckets_ >= 3
    /\ \E i \in DOMAIN page_table_.dir_ :
          page_table_.buckets[page_table_.dir_[i]].depth_ < page_table_.global_depth_

-----------------------------------------------------------------------------
(* Properties of the trie. *)

\* C25: Trie Remove(key) removes only that key: every other key, a proper
\* prefix of the removed key and a key that extends it included, is found by
\* GetValue afterwards with the value it had before.
C25_RemoveKeepsOtherKeys ==
    [][\A key \in TrieKeys :
          TrieRemoveCall(key) =>
              \A other \in TrieKeys \ {key} :
                  GetValue(root_, other).success =>
                      GetValue(root_, other)' = GetValue(root_, other)]_vars

\* C26: Trie Remove(key) returns true exactly when key is stored, and then
\* GetValue(key) fails afterwards; it returns false and leaves the trie as it
\* was when key is empty or not stored, also when key is only a prefix of
\* stored keys.
C26_RemoveTrueIffStored ==
    [][\A key \in TrieKeys :
          TrieRemoveCall(key) =>
              /\ ret'.ok = GetValue(root_, key).success
              /\ ret'.ok => ~GetValue(root_, key)'.success
              /\ ~ret'.ok => root_' = root_]_vars

-----------------------------------------------------------------------------
(* Invariants of the buffer pool manager. *)

\* C27: in every reachable state the page table maps p to f if and only if
\* frame f holds page p and p is not INVALID_PAGE_ID: no page id is held by
\* two frames and no frame that holds a page is missing from the page table.
C27_PageTableMatchesFrames ==
    /\ \A p \in PageIds, f \in FrameIds :
          (Resident(p) /\ FrameOf(p) = f) <=> (pages_[f].page_id_ = p)
    /\ \A f \in FrameIds, g \in FrameIds :
          (HoldsPage(f) /\ pages_[f].page_id_ = pages_[g].page_id_) => f = g

\* C28: in every reachable state no frame is both in the free list and
\* tracked by the replacer, and every frame is in the free list or holds a
\* page.
C28_FreeListAndReplacerDisjoint ==
    /\ Range(free_list_) \cap DOMAIN replacer_.record_cnt_ = {}
    /\ \A f \in FrameIds : f \in Range(free_list_) \/ HoldsPage(f)

\* DeletePgImp has just put a frame back on the free list while the replacer
\* tracks another frame
C28_Witness ==
    /\ ret.op = "DeletePg" /\ ret.ok /\ ~crashed
    /\ free_list_ # <<>>
    /\ \E f \in FrameIds : HoldsPage(f) /\ f \in DOMAIN replacer_.record_cnt_

-----------------------------------------------------------------------------
(* Invariants of the replacer. *)

\* C29: after any sequence of replacer operations, size() equals the number
\* of tracked frames whose evictable flag is true.
C29_SizeCountsEvictableFrames ==
    Size(replacer_) = Cardinality(EvictableFrames(replacer_))

\* Evict has just taken one of several evictable frames, and a tracked frame
\* that is not evictable remains
C29_Witness ==
    /\ ret.op = "Evict" /\ ret.ok
    /\ Size(replacer_) >= 1
    /\ \E f \in DOMAIN replacer_.record_cnt_ : ~IsEvictableAt(replacer_, f)

\* C30: for every k >= 1, k = 1 included, after any sequence of replacer
\* operations each tracked frame is in exactly one of the history and cache
\* queues, in the history queue iff its access count is below k and in the
\* cache queue iff it is at least k, and no untracked frame is in either
\* queue.
C30_OneQueuePerFrame ==
    /\ \A f \in DOMAIN replacer_.record_cnt_ :
          /\ Count(replacer_.history_list_, f) + Count(replacer_.cache_list_, f) = 1
          /\ f \in Range(replacer_.history_list_) <=> replacer_.record_cnt_[f] < replacer_.k_
          /\ f \in Range(replacer_.cache_list_) <=> replacer_.record_cnt_[f] >= replacer_.k_
    /\ Queued(replacer_) \subseteq DOMAIN replacer_.record_cnt_

\* C31: record_access(f) changes only frame f's own record and the clock: it
\* never evicts or removes another tracked frame and never changes size().
C31_RecordAccessTouchesOnlyItsFrame ==
    [][\A f \in ReplacerFrames :
          RecordAccessCall(f) =>
              /\ Size(replacer_') = Size(replacer_)
              /\ \A g \in DOMAIN replacer_.record_cnt_ \ {f} :
                    /\ g \in DOMAIN replacer_'.record_cnt_
                    /\ replacer_'.record_cnt_[g] = replacer_.record_cnt_[g]
                    /\ replacer_'.timestamp_list_[g] = replacer_.timestamp_list_[g]
                    /\ IsEvictableAt(replacer_', g) = IsEvictableAt(replacer_, g)]_vars

-----------------------------------------------------------------------------
(* Properties of the replacer under concurrent callers. *)

\* the threads that are inside a replacer operation
InsideReplacer == {t \in Threads : threads[t].at \in {"body", "evict", "relock"}}

\* C35: under concurrent threads every replacer operation takes effect
\* atomically while holding the replacer mutex: while a thread is inside one
\* operation no other thread's step changes the replacer, and no operation
\* reads replacer state while another thread holds the mutex.
C35_ReplacerOperationsAtomic ==
    [][/\ \A t \in InsideReplacer :
             threads'[t] = threads[t] => Unlocked(replacer_') = Unlocked(replacer_)
       /\ \A t \in Threads : SizeCall(t) => ~replacer_.latch_]_vars

\* C40: a replacer operation that fails with an error (RecordAccess on an
\* out-of-range frame id, Remove on a non-evictable frame) releases the
\* replacer mutex, so that later operations of any thread are not blocked.
C40_FailedOperationReleasesMutex ==
    [][\A t \in Threads, f \in ReplacerFrames :
          ((BodyRecordAccess(t, f) \/ \E u \in UBOutcomes : BodyRemove(t, f, u))
              /\ ret'.thrown /\ ~crashed') => ~replacer_'.latch_]_vars

-----------------------------------------------------------------------------
(* More properties of the buffer pool manager under concurrent callers. *)

\* the threads that are inside FlushAllPgsImp
InsideFlushAll == {t \in Threads : threads[t].all /\ threads[t].at # "idle"}

\* C36: every public operation of the buffer pool manager, FlushAllPgsImp
\* included, reads and modifies frame metadata only while it holds latch_,
\* so that each operation is atomic with respect to concurrent NewPgImp,
\* FetchPgImp, UnpinPgImp, FlushPgImp and DeletePgImp: a thread that reads a
\* frame's page id holds latch_, and while a thread is inside one operation
\* no other thread's step changes the frames.
C36_OperationsHoldLatch ==
    [][/\ \A t \in Threads :
             (LoopFlushAll(t) /\ threads[t].i < pool_size_) => t \in LatchHolders
       /\ \A t \in InsideFlushAll \cup LatchHolders :
             threads'[t] = threads[t] => UNCHANGED <<pages_, page_table_, free_list_>>]_vars

-----------------------------------------------------------------------------
(* Properties of the buffer pool manager seen by a caller that keeps books. *)

\* C37: no update is lost: once a caller has modified page p's buffer and
\* called UnpinPgImp(p, true), every later successful FetchPgImp(p) returns a
\* frame whose buffer holds those bytes, whether p stayed resident or was
\* evicted and read back in between, as long as p was not deleted or
\* modified again.
C37_NoLostUpdate ==
    [][\A p \in PageIds :
          (CallerFetchPg(p) /\ ret'.ok /\ p \in DOMAIN expected) =>
              pages_'[ret'.frame].data_ = expected[p]]_vars

\* C38: for every resident page p the pin count of its frame equals the
\* number of NewPgImp and FetchPgImp calls that returned a handle to p minus
\* the number of successful UnpinPgImp(p, .) calls since p became resident,
\* and no operation that returns nullptr or false changes a pin count.
C38_PinCountCountsHandles ==
    /\ [](\A p \in PageIds : Resident(p) => pages_[FrameOf(p)].pin_count_ = Held(p))
    /\ [][(~ret'.ok /\ ~ret'.thrown) =>
             \A f \in FrameIds : pages_'[f].pin_count_ = pages_[f].pin_count_]_vars

\* the caller has given back every handle it was given
AllUnpinned == ~crashed /\ \A p \in DOMAIN handles : handles[p] = 0

\* C39: frames never leak: in every reachable state in which the callers
\* have unpinned every handle they were given, every frame is in the free
\* list or evictable in the replacer, so that the next NewPgImp succeeds.
C39_NoFrameLeak ==
    /\ [](AllUnpinned =>
             \A f \in FrameIds :
                 f \in Range(free_list_) \/ f \in EvictableFrames(replacer_))
    /\ [][(CallerNewPg /\ AllUnpinned) => ret'.ok]_vars
=============================================================================
